---- MODULE Spec2Model ----
(***************************************************************************)
(* Model of the python worker of agentic-team-workflow:                    *)
(* src/workers/python_worker/worker.py.                                    *)
(*                                                                         *)
(* The dispatcher handle_message is a state machine per worker process;    *)
(* every statement that talks to the broker, the task-state store, the     *)
(* orchestrator or object storage is one step, and the answer of the       *)
(* collaborator is drawn from a small set.  A store operation is the       *)
(* code's "execute, on a dropped connection reconnect and execute once     *)
(* more" (DbRetryOnce).                                                    *)
(*                                                                         *)
(* The functions run_reviewer, run_designer (with latex_pdf.py) and        *)
(* run_notifier are also studied on their own: SpecReviewer, SpecDesigner  *)
(* and SpecNotifier draw the inputs of one call and apply the function     *)
(* step by step, with no worker consuming.  SpecRecipients does the same   *)
(* for the recipient normalization of run_notifier, on strings of          *)
(* characters.  SpecAi follows one generate_ai_response call of            *)
(* ai_helper.py through its provider attempts, and SpecRateLimit lets two  *)
(* threads run _wait_for_rate_limit against a clock.  SpecStore runs one   *)
(* store statement, SpecChart the data selection, validation and drawing   *)
(* of run_chart, SpecRole get_chart_role.  SpecLive is the dispatcher     *)
(* under redelivery without end and with fairness; SpecTwo has two worker  *)
(* processes consuming the same task.                                      *)
(***************************************************************************)
EXTENDS Integers, FiniteSets, Sequences, TLC

\* ---------------------------------------------------------------- bounds
\* Number of deliveries the broker makes in one behaviour.
MaxDeliveries == 3

\* ------------------------------------------------------- program constants
MAX_RETRIES == 3
\* run_designer: for attempt in range(3)
COMPLETE_ATTEMPTS == 3

\* ------------------------------------------------------------- universes
Workers == {"w1", "w2"}
Tasks == {"t1"}
Msgs == {"m1", "m2"}
Malformed == "malformed"
NoMsg == "none"
NoTask == "none"
NoRow == "none"
NoJob == "none"
NoKey == <<>>

\* job_id carried by the message (payload.get("job_id")) and jobs.id of the
\* task row; m2 is a message enqueued without a job_id.
MsgJob(m) == IF m = "m1" THEN "j1" ELSE NoJob
RowJob(t) == "j1"

\* agent_type values of a task row; "analyzer" stands for the agents that
\* share its frame (analyzer, summarizer, validator, transformer), "custom"
\* for any agent_type the dispatcher does not know.
AgentKinds == {"reviewer", "designer", "chart", "analyzer", "custom"}

\* What the agent's own input checks find in the payload of the message.
PayloadClasses == {"ok", "invalid", "unresolved"}

\* HTTP answers of the orchestrator; err = the request raised (connection
\* error or timeout) instead of returning a response.
Statuses == {200, 409, 500}
NetErr == [err |-> TRUE, status |-> 0]
Resp(s) == [err |-> FALSE, status |-> s]
HttpResults == {NetErr} \cup {Resp(s) : s \in Statuses}

\* One execution of a statement on the store connection.
AttemptOutcomes == {"ok", "lost_before", "lost_after"}

VARIABLES
    active,             \* worker processes that consume from the queue
    msgBody,            \* message -> task id or Malformed
    msgState,           \* message -> "ready" | "acked" | the worker holding it unacked
    deliveries,         \* deliveries made so far
    rowAgent,           \* tasks.agent_type, NoRow when the row is missing
    retry_count,        \* tasks.retry_count
    in_progress_tasks,  \* worker -> set of task ids
    pc,                 \* worker -> position in handle_message
    cur,                \* worker -> message being handled
    task_id,            \* worker -> local task_id
    agent_type_db,      \* worker -> local agent_type_db
    payloadClass,       \* worker -> class of the payload handed to the agent
    retries,            \* worker -> local retries of the except block
    attempt,            \* worker -> loop counter of run_designer
    dlv,                \* worker -> record of what this delivery did
    hist,               \* task -> summary of the finished deliveries
    job_id,             \* worker -> local job_id
    storage,            \* object storage: set of <<key, worker that put it last>>
    calc                \* the call of an agent function studied on its own

vars == <<active, msgBody, msgState, deliveries, rowAgent, retry_count,
          in_progress_tasks, pc, cur, task_id, agent_type_db, payloadClass,
          retries, attempt, dlv, hist, job_id, storage, calc>>

\* ------------------------------------------------------------ the store
\* try: execute / except connection error: reconnect, execute once more.
\* applied = how many times the server applied the statement.
DbRetryOnce(a1, a2) ==
    IF a1 = "ok"
    THEN [raised |-> FALSE, execs |-> 1, applied |-> 1, dropped |-> FALSE]
    ELSE LET first == IF a1 = "lost_after" THEN 1 ELSE 0
             second == IF a2 = "lost_before" THEN 0 ELSE 1
         IN [raised |-> a2 # "ok", execs |-> 2,
             applied |-> first + second, dropped |-> TRUE]

\* No agent function is being studied.
NoCall == [fn |-> "none"]

\* ----------------------------------------------- record of one delivery
NoResult == [err |-> FALSE, status |-> -1]

IdleDelivery ==
    [acks |-> 0, nacks |-> 0,
     startRes |-> NoResult,
     agentRan |-> FALSE,
     agentRaised |-> FALSE,
     completes |-> 0, completeOK |-> FALSE,
     fails |-> 0, failErr |-> FALSE, reviews |-> 0,
     retryRead |-> FALSE, dispFail |-> "none",
     puts |-> 0,
     counted |-> {},
     storeTouched |-> FALSE, dbDropped |-> FALSE,
     netErr |-> FALSE,
     complete409 |-> FALSE,
     generated |-> FALSE,
     failMsg |-> "none",
     putKey |-> NoKey, namedKey |-> NoKey,
     \* "artifact" of the completion_payload the generic executor built
     artifactKey |-> NoKey,
     \* what load_task_context returned: "none" | "row" | "missing"
     loaded |-> "none",
     rc0 |-> 0,
     inprog0 |-> {}]

\* rc0, inprog0: retry_count of the task and the in-progress set on entry.
FreshDelivery(w, m) ==
    [IdleDelivery EXCEPT
       !.rc0 = IF msgBody[m] \in Tasks THEN retry_count[msgBody[m]] ELSE 0,
       !.inprog0 = in_progress_tasks[w]]

\* A store operation was executed; remember whether the connection dropped.
TouchStore(d, o) ==
    [d EXCEPT !.storeTouched = TRUE, !.dbDropped = @ \/ o.dropped]

\* Summary of the finished deliveries of one task.
NoHist == [done |-> 0, execs |-> 0, nackEnds |-> 0, failAckEnds |-> 0,
           clean |-> TRUE, rcStart |-> 0]

\* Variant: every answered start counts as ownership.
OwnershipAcquiredAnyStatus(r) == ~r.err

\* if r.status_code not in (200, 409): drop
OwnershipAcquired(r) == ~r.err /\ r.status \in {200, 409}

\* clean: so far every delivery of the task got 200/409 from start, met no
\* dropped store connection, and ran an agent that raised.
FoldAll(h, d) ==
    [done |-> h.done + 1,
     execs |-> h.execs + (IF d.agentRan THEN 1 ELSE 0),
     nackEnds |-> h.nackEnds + (IF d.nacks > 0 THEN 1 ELSE 0),
     failAckEnds |-> h.failAckEnds
                      + (IF d.acks > 0 /\ d.fails > 0 THEN 1 ELSE 0),
     clean |-> h.clean /\ OwnershipAcquired(d.startRes) /\ ~d.dbDropped
                 /\ d.agentRan /\ d.agentRaised,
     rcStart |-> IF h.done = 0 THEN d.rc0 ELSE h.rcStart]

\* Only the tasks whose deliveries were all of that kind are followed.
DirtyHist == [NoHist EXCEPT !.clean = FALSE]
FoldHist(h, d) == IF FoldAll(h, d).clean THEN FoldAll(h, d) ELSE DirtyHist

\* ------------------------------------------------------------------ Init
Init ==
    /\ active = {"w1"}
    /\ msgBody \in [Msgs -> Tasks \cup {Malformed}]
    /\ msgState = [m \in Msgs |-> "ready"]
    /\ deliveries = 0
    /\ rowAgent \in [Tasks -> AgentKinds \cup {NoRow}]
    /\ retry_count = [t \in Tasks |-> 0]
    /\ in_progress_tasks = [w \in Workers |-> {}]
    /\ pc = [w \in Workers |-> "idle"]
    /\ cur = [w \in Workers |-> NoMsg]
    /\ task_id = [w \in Workers |-> NoTask]
    /\ agent_type_db = [w \in Workers |-> NoRow]
    /\ payloadClass = [w \in Workers |-> "ok"]
    /\ retries = [w \in Workers |-> 0]
    /\ attempt = [w \in Workers |-> 0]
    /\ dlv = [w \in Workers |-> IdleDelivery]
    /\ hist = [t \in Tasks |-> NoHist]
    /\ job_id = [w \in Workers |-> NoJob]
    /\ storage = {}
    /\ calc = NoCall

\* ------------------------------------------------------------ the broker
\* ch.basic_ack(delivery_tag)
BasicAck(w, d) == [d EXCEPT !.acks = @ + 1]
\* ch.basic_nack(delivery_tag, requeue=True)
BasicNack(w, d) == [d EXCEPT !.nacks = @ + 1]

Acked(w) == msgState' = [msgState EXCEPT ![cur[w]] = "acked"]
Requeued(w) == msgState' = [msgState EXCEPT ![cur[w]] = "ready"]

\* ------------------------------------------------ handle_message, entry
\* json.loads(body) / payload["task_id"] raise: nothing was acked.
ReceiveMalformed(w, m) ==
    /\ w \in active /\ pc[w] = "idle" /\ msgState[m] = "ready"
    /\ deliveries < MaxDeliveries
    /\ msgBody[m] = Malformed
    /\ msgState' = [msgState EXCEPT ![m] = w]
    /\ deliveries' = deliveries + 1
    /\ cur' = [cur EXCEPT ![w] = m]
    /\ job_id' = [job_id EXCEPT ![w] = NoJob]
    /\ task_id' = [task_id EXCEPT ![w] = NoTask]
    /\ dlv' = [dlv EXCEPT ![w] = FreshDelivery(w, m)]
    /\ pc' = [pc EXCEPT ![w] = "raised"]
    /\ UNCHANGED <<storage, calc, active, msgBody, rowAgent, retry_count, in_progress_tasks,
                   agent_type_db, payloadClass, retries, attempt, hist>>

\* Variant: the duplicate branch also discards the task, as the finally
\* clause of the main path does.
DuplicateDropDiscards(w, m) ==
    /\ msgState' = [msgState EXCEPT ![m] = "acked"]
    /\ dlv' = [dlv EXCEPT ![w] = BasicAck(w, FreshDelivery(w, m))]
    /\ pc' = [pc EXCEPT ![w] = "done"]
    /\ in_progress_tasks' = [in_progress_tasks EXCEPT ![w] = @ \ {msgBody[m]}]
    /\ UNCHANGED retry_count

\* if task_id in in_progress_tasks: basic_ack; return
DuplicateDrop(w, m) ==
    /\ msgState' = [msgState EXCEPT ![m] = "acked"]
    /\ dlv' = [dlv EXCEPT ![w] = BasicAck(w, FreshDelivery(w, m))]
    /\ pc' = [pc EXCEPT ![w] = "done"]
    /\ UNCHANGED <<in_progress_tasks, retry_count>>

ReceiveDuplicate(w, m) ==
    /\ w \in active /\ pc[w] = "idle" /\ msgState[m] = "ready"
    /\ deliveries < MaxDeliveries
    /\ msgBody[m] \in in_progress_tasks[w]
    /\ deliveries' = deliveries + 1
    /\ cur' = [cur EXCEPT ![w] = m]
    /\ job_id' = [job_id EXCEPT ![w] = MsgJob(m)]
    /\ task_id' = [task_id EXCEPT ![w] = msgBody[m]]
    /\ DuplicateDrop(w, m)
    /\ UNCHANGED <<storage, calc, active, msgBody, rowAgent,
                   agent_type_db, payloadClass, retries, attempt, hist>>

\* in_progress_tasks.add(task_id)
Accept(w, m) ==
    /\ w \in active /\ pc[w] = "idle" /\ msgState[m] = "ready"
    /\ msgBody[m] \in Tasks
    /\ msgBody[m] \notin in_progress_tasks[w]
    /\ msgState' = [msgState EXCEPT ![m] = w]
    /\ cur' = [cur EXCEPT ![w] = m]
    /\ job_id' = [job_id EXCEPT ![w] = MsgJob(m)]
    /\ task_id' = [task_id EXCEPT ![w] = msgBody[m]]
    /\ in_progress_tasks' = [in_progress_tasks EXCEPT ![w] = @ \cup {msgBody[m]}]
    /\ dlv' = [dlv EXCEPT ![w] = FreshDelivery(w, m)]
    /\ pc' = [pc EXCEPT ![w] = "load"]
    /\ UNCHANGED <<storage, calc, active, msgBody, rowAgent, retry_count,
                   agent_type_db, payloadClass, retries, attempt, hist>>

ReceiveNew(w, m) ==
    /\ deliveries < MaxDeliveries
    /\ deliveries' = deliveries + 1
    /\ Accept(w, m)

\* ------------------------------------------------------- shared pieces
DbOutcomes == {DbRetryOnce(a1, a2) : a1 \in AttemptOutcomes, a2 \in AttemptOutcomes}

\* A SELECT, or the INSERT of a log row (log rows are not part of the state):
\* whether a lost statement had reached the server makes no difference.
QueryOutcomes ==
    {DbRetryOnce(a1, a2) : a1 \in {"ok", "lost_before"}, a2 \in {"ok", "lost_before"}}

\* in_progress_tasks.discard(task_id)
Discard(w) ==
    in_progress_tasks' = [in_progress_tasks EXCEPT ![w] = @ \ {task_id[w]}]

Goto(w, to, d) ==
    /\ pc' = [pc EXCEPT ![w] = to]
    /\ dlv' = [dlv EXCEPT ![w] = d]

\* An exception inside the try block of handle_message reaches its except
\* block; the in-progress set is untouched until the finally clause.
ToExcept(w, d) ==
    /\ Goto(w, "except", [d EXCEPT !.agentRaised = d.agentRan])
    /\ UNCHANGED <<in_progress_tasks, msgState>>

\* ----------------------------------------- handle_message, context load
\* load_task_context(task_id): called before the try block, so an error of
\* the second execution leaves handle_message with task_id still in the set.
\* Variant: a missing row is not noticed.
TaskFoundAlways(r) == TRUE

\* not "if agent_type_db is None"
TaskFound(r) == r # NoRow

LoadContext(w, o) ==
    /\ pc[w] = "load"
    /\ LET d == TouchStore(dlv[w], o)
           row == rowAgent[task_id[w]]
       IN IF o.raised
          THEN /\ Goto(w, "raised", d)
               /\ UNCHANGED <<agent_type_db, job_id>>
          ELSE /\ Goto(w, IF TaskFound(row) THEN "start" ELSE "notfound",
                       [d EXCEPT !.loaded = IF row = NoRow THEN "missing" ELSE "row"])
               /\ agent_type_db' = [agent_type_db EXCEPT ![w] = rowAgent[task_id[w]]]
               \* if job_id is None: job_id = job_id_db
               /\ job_id' = [job_id EXCEPT ![w] =
                      IF @ # NoJob \/ rowAgent[task_id[w]] = NoRow
                      THEN @ ELSE RowJob(task_id[w])]
    /\ UNCHANGED <<storage, calc, active, msgBody, msgState, deliveries, rowAgent, retry_count,
                   in_progress_tasks, cur, task_id, payloadClass, retries,
                   attempt, hist>>

\* if agent_type_db is None: log_task; discard; basic_ack; return
TaskNotFound(w, o) ==
    /\ pc[w] = "notfound"
    /\ LET d == TouchStore(dlv[w], o)
       IN IF o.raised
          THEN /\ Goto(w, "raised", d)
               /\ UNCHANGED <<in_progress_tasks, msgState>>
          ELSE /\ Discard(w)
               /\ Acked(w)
               /\ Goto(w, "done", BasicAck(w, d))
    /\ UNCHANGED <<storage, calc, job_id, active, msgBody, deliveries, rowAgent, retry_count,
                   cur, task_id, agent_type_db, payloadClass, retries,
                   attempt, hist>>

\* --------------------------------------------- handle_message, ownership
\* POST /internal/tasks/{id}/start returned 200 or 409
StartOwned(w, r) ==
    /\ pc[w] = "start"
    /\ OwnershipAcquired(r)
    /\ Goto(w, "execlog", [dlv[w] EXCEPT !.startRes = r])
    /\ UNCHANGED <<storage, calc, job_id, active, msgBody, msgState, deliveries, rowAgent, retry_count,
                   in_progress_tasks, cur, task_id, agent_type_db, payloadClass,
                   retries, attempt, hist>>

\* any other status: discard; basic_ack; return
StartRefused(w, r) ==
    /\ pc[w] = "start"
    /\ ~r.err /\ ~OwnershipAcquired(r)
    /\ Discard(w)
    /\ Acked(w)
    /\ Goto(w, "done", BasicAck(w, [dlv[w] EXCEPT !.startRes = r]))
    /\ UNCHANGED <<storage, calc, job_id, active, msgBody, deliveries, rowAgent, retry_count,
                   cur, task_id, agent_type_db, payloadClass, retries,
                   attempt, hist>>

\* requests.post raised
StartNetErr(w) ==
    /\ pc[w] = "start"
    /\ Goto(w, "startfail", [dlv[w] EXCEPT !.startRes = NetErr])
    /\ UNCHANGED <<storage, calc, job_id, active, msgBody, msgState, deliveries, rowAgent, retry_count,
                   in_progress_tasks, cur, task_id, agent_type_db, payloadClass,
                   retries, attempt, hist>>

\* except Exception: log_task; discard; basic_nack(requeue=True); return
StartFailed(w, o) ==
    /\ pc[w] = "startfail"
    /\ LET d == TouchStore(dlv[w], o)
       IN IF o.raised
          THEN /\ Goto(w, "raised", d)
               /\ UNCHANGED <<in_progress_tasks, msgState>>
          ELSE /\ Discard(w)
               /\ Requeued(w)
               /\ Goto(w, "done", BasicNack(w, d))
    /\ UNCHANGED <<storage, calc, job_id, active, msgBody, deliveries, rowAgent, retry_count,
                   cur, task_id, agent_type_db, payloadClass, retries,
                   attempt, hist>>

\* ------------------------------------------------ handle_message, dispatch
AgentEntry(a) ==
    CASE a = "reviewer" -> "rev_run"
      [] a = "designer" -> "des_check"
      [] a = "chart" -> "chart_check"
      [] a = "analyzer" -> "body"
      [] OTHER -> "cus_body"

\* The agents that check their payload before working.
ClassesOf(a) == IF a \in {"designer", "chart"} THEN PayloadClasses ELSE {"ok"}

\* log_task("Execution started"); sleep; if/elif on agent_type_db; p is the
\* class of the payload (of the message, else of the row) the agent is given
Dispatch(w, o, p) ==
    /\ pc[w] = "execlog"
    /\ p \in ClassesOf(agent_type_db[w])
    /\ LET d == TouchStore(dlv[w], o)
       IN IF o.raised
          THEN ToExcept(w, d) /\ UNCHANGED payloadClass
          ELSE /\ Goto(w, AgentEntry(agent_type_db[w]), [d EXCEPT !.agentRan = TRUE])
               /\ payloadClass' = [payloadClass EXCEPT ![w] = p]
               /\ UNCHANGED <<in_progress_tasks, msgState>>
    /\ UNCHANGED <<storage, calc, job_id, active, msgBody, deliveries, rowAgent, retry_count,
                   cur, task_id, agent_type_db, retries,
                   attempt, hist>>

\* What a step that writes to object storage leaves alone.
PutFrame ==
    UNCHANGED <<active, msgBody, deliveries, rowAgent, retry_count, cur,
                task_id, agent_type_db, payloadClass, retries, hist,
                job_id, calc>>

\* What any other step inside an agent leaves alone.
AgentFrame == PutFrame /\ UNCHANGED storage

\* object_key = f"jobs/{job_id}/{task_id}<suffix>"
KeySuffix(a) ==
    CASE a = "designer" -> ".pdf"
      [] a = "chart" -> ".png"
      [] a = "analyzer" -> "_analysis.json"
      [] OTHER -> ".txt"

\* Variant: a key that differs from one delivery to the next.
ObjectKeyPerDelivery(w) ==
    <<job_id[w], task_id[w], KeySuffix(agent_type_db[w]), deliveries>>

ObjectKey(w) == <<job_id[w], task_id[w], KeySuffix(agent_type_db[w])>>

\* s3_client.put_object(Bucket, Key=object_key, Body): replaces what K held
PutObject(w) ==
    storage' = {x \in storage : x[1] # ObjectKey(w)} \cup {<<ObjectKey(w), w>>}

Uploaded(w, d) == [d EXCEPT !.puts = @ + 1, !.putKey = ObjectKey(w)]

\* A step of the try block that stays in the try block.
Stay(w, to, d) ==
    /\ Goto(w, to, d)
    /\ UNCHANGED <<in_progress_tasks, msgState>>

\* ---------------------------------------------------------------- reviewer
\* review = run_reviewer(task_id, payload): reads the target row on db_conn
\* without the reconnect wrapper, so a dropped connection raises.
ReviewerOutcomes == {"ok", "raise", "dberr"}

RunReviewer(w, x) ==
    /\ pc[w] = "rev_run"
    /\ IF x = "ok"
       THEN Stay(w, "rev_post", dlv[w])
       ELSE ToExcept(w, [dlv[w] EXCEPT !.storeTouched = @ \/ (x = "dberr"),
                                      !.dbDropped = @ \/ (x = "dberr")])
    /\ AgentFrame /\ UNCHANGED attempt

\* POST /review; a status other than 200 raises RuntimeError
PostReview(w, r) ==
    /\ pc[w] = "rev_post"
    /\ LET d == [dlv[w] EXCEPT !.reviews = @ + 1, !.netErr = @ \/ r.err]
       IN IF r.err \/ r.status # 200
          THEN ToExcept(w, d)
          ELSE Stay(w, "final_log", [d EXCEPT !.counted = @ \cup {"reviewed"}])
    /\ AgentFrame /\ UNCHANGED attempt

\* ------------------------------------------------- chart / analyzer frame
\* run_chart: unresolved templates or failed validation: log_task, then
\* POST /fail inside try/except, count "failed", return.
\* Variant: unresolved templates are sanitized and the chart is drawn.
ChartRejectsInvalidOnly(p) == p = "invalid"

\* "if unresolved:" at the top of run_chart, "if error_msg:" after validation
ChartRejects(p) == p \in {"unresolved", "invalid"}

ChartCheck(w, o) ==
    /\ pc[w] = "chart_check"
    /\ IF ~ChartRejects(payloadClass[w])
       THEN Stay(w, "body", dlv[w])
       ELSE LET d == TouchStore(dlv[w], o)
            IN IF o.raised THEN ToExcept(w, d) ELSE Stay(w, "chart_fail", d)
    /\ AgentFrame /\ UNCHANGED attempt

ChartFail(w, r, o) ==
    /\ pc[w] = "chart_fail"
    /\ LET d == [dlv[w] EXCEPT !.fails = @ + 1, !.failErr = @ \/ r.err,
                               !.failMsg = IF payloadClass[w] = "unresolved"
                                           THEN "unresolved templates"
                                           ELSE "validation"]
           counted == [d EXCEPT !.counted = @ \cup {"failed"}]
       IN IF r.err
          THEN \* except Exception as e: log_task(...)
               IF o.raised THEN ToExcept(w, TouchStore(d, o))
               ELSE Stay(w, "ack_ok", TouchStore(counted, o))
          ELSE Stay(w, "ack_ok", counted)
    /\ AgentFrame /\ UNCHANGED attempt

\* The agent computes its result (renders the chart, computes statistics).
AgentBody(w, ok) ==
    /\ pc[w] = "body"
    /\ IF ok THEN Stay(w, "put", dlv[w]) ELSE ToExcept(w, dlv[w])
    /\ AgentFrame /\ UNCHANGED attempt

\* s3_client.put_object(...); ok = FALSE: the call raised (endpoint
\* unreachable, timeout), nothing was stored
AgentPut(w, ok) ==
    /\ pc[w] = "put"
    /\ IF ok
       THEN /\ PutObject(w)
            /\ Stay(w, "complete", Uploaded(w, dlv[w]))
       ELSE /\ UNCHANGED storage
            /\ ToExcept(w, [dlv[w] EXCEPT !.netErr = TRUE])
    /\ PutFrame /\ UNCHANGED attempt

\* requests.post(.../complete, json={"result", "artifact"}); the answer is
\* not looked at.  The agents of the analyzer frame write object_key into
\* the body; the generic executor sends the completion_payload it built.
AgentComplete(w, r) ==
    /\ pc[w] = "complete"
    /\ LET d == [dlv[w] EXCEPT !.completes = @ + 1,
                               !.netErr = @ \/ r.err,
                               !.namedKey = IF agent_type_db[w] = "custom"
                                            THEN dlv[w].artifactKey
                                            ELSE ObjectKey(w)]
       IN IF r.err
          THEN ToExcept(w, d)
          ELSE Stay(w, "final_log",
                    [d EXCEPT !.completeOK = @ \/ r.status \in {200, 409},
                              !.complete409 = @ \/ r.status = 409,
                              !.counted = @ \cup {"success"}])
    /\ AgentFrame /\ UNCHANGED attempt

\* the log_task that ends the agent (or the review branch)
FinalLog(w, o) ==
    /\ pc[w] = "final_log"
    /\ LET d == TouchStore(dlv[w], o)
       IN IF o.raised THEN ToExcept(w, d) ELSE Stay(w, "ack_ok", d)
    /\ AgentFrame /\ UNCHANGED attempt

\* ------------------------------------------------------- generic executor
\* The AI call is wrapped in try/except; only its log_task calls can raise.
CustomBody(w, o) ==
    /\ pc[w] = "cus_body"
    /\ LET d == TouchStore(dlv[w], o)
       IN IF o.raised THEN ToExcept(w, d) ELSE Stay(w, "cus_put", d)
    /\ AgentFrame /\ UNCHANGED attempt

\* Variant: the completion payload names the key whatever the upload did.
CompletionPayloadKeyAlways(w, uploaded) == ObjectKey(w)

\* completion_payload of the generic executor: "artifact" only in the branch
\* where put_object and the log_task after it did not raise
CompletionPayloadKey(w, uploaded) == IF uploaded THEN ObjectKey(w) ELSE NoKey

\* try: put_object; log_task / except Exception: log_task; then the payload
\* without artifact.  o1 is the log_task of the try branch, o2 the one of
\* the except branch.
CustomPut(w, ok, o1, o2) ==
    /\ pc[w] = "cus_put"
    /\ IF ok THEN PutObject(w) ELSE UNCHANGED storage
    /\ LET d0 == IF ok THEN Uploaded(w, dlv[w]) ELSE [dlv[w] EXCEPT !.netErr = TRUE]
           d1 == IF ok THEN TouchStore(d0, o1) ELSE d0
           caught == ~ok \/ o1.raised
           d2 == IF caught THEN TouchStore(d1, o2) ELSE d1
           d == [d2 EXCEPT !.artifactKey = CompletionPayloadKey(w, ~caught)]
       IN IF caught /\ o2.raised THEN ToExcept(w, d2) ELSE Stay(w, "complete", d)
    /\ PutFrame /\ UNCHANGED attempt

\* ---------------------------------------------------------------- designer
\* "if not sections: raise ValueError"; the unresolved-template check raises
\* inside "try: ... except Exception: pass", so nothing leaves it.
DesignerCheck(w, o) ==
    /\ pc[w] = "des_check"
    /\ CASE payloadClass[w] = "invalid" -> ToExcept(w, dlv[w])
         [] payloadClass[w] = "unresolved" -> Stay(w, "des_prep", TouchStore(dlv[w], o))
         [] OTHER -> Stay(w, "des_prep", dlv[w])
    /\ AgentFrame /\ UNCHANGED attempt

\* fetch_job_artifacts_from_db (own connection, errors swallowed); log_task x2
DesignerPrepare(w, o) ==
    /\ pc[w] = "des_prep"
    /\ LET d == TouchStore(dlv[w], o)
       IN IF o.raised THEN ToExcept(w, d) ELSE Stay(w, "des_gen", d)
    /\ AgentFrame /\ UNCHANGED attempt

\* latex_pdf.generate_pdf_from_payload; log_task
DesignerGenerate(w, ok, o) ==
    /\ pc[w] = "des_gen"
    /\ LET d == TouchStore(dlv[w], o)
       IN IF ~ok THEN ToExcept(w, dlv[w])
          ELSE IF o.raised THEN ToExcept(w, [d EXCEPT !.generated = TRUE])
          ELSE Stay(w, "des_put", [d EXCEPT !.generated = TRUE])
    /\ AgentFrame /\ UNCHANGED attempt

\* put_object; log_task; completion_success = False; attempt = 0
DesignerPut(w, ok, o) ==
    /\ pc[w] = "des_put"
    /\ IF ~ok
       THEN /\ ToExcept(w, [dlv[w] EXCEPT !.netErr = TRUE])
            /\ UNCHANGED <<attempt, storage>>
       ELSE /\ PutObject(w)
            /\ LET d == TouchStore(Uploaded(w, dlv[w]), o)
               IN IF o.raised
                  THEN ToExcept(w, d) /\ UNCHANGED attempt
                  ELSE /\ Stay(w, "des_complete", d)
                       /\ attempt' = [attempt EXCEPT ![w] = 0]
    /\ PutFrame

\* One pass of "for attempt in range(3)": "success" breaks the loop, "next"
\* goes on to the next attempt, "escape" is an exception leaving the loop
\* (the log_task of the inner except block raised).
\* jsonOk: resp.json() of the 200 answer could be decoded.
CompleteAttempt(r, jsonOk, o1, o2) ==
    LET caught == IF o2.raised THEN "escape" ELSE "next"
    IN IF r.err THEN caught
       ELSE IF r.status = 200
            THEN IF jsonOk /\ ~o1.raised THEN "success" ELSE caught
            ELSE IF o1.raised THEN caught
                 ELSE IF r.status = 409 THEN "success" ELSE "next"

DesignerComplete(w, r, jsonOk, o1, o2) ==
    /\ pc[w] = "des_complete"
    /\ LET res == CompleteAttempt(r, jsonOk, o1, o2)
           d1 == [dlv[w] EXCEPT !.completes = @ + 1,
                                !.netErr = @ \/ r.err,
                                !.namedKey = ObjectKey(w),
                                !.complete409 = @ \/ (~r.err /\ r.status = 409),
                                !.completeOK = @ \/ (~r.err /\ r.status \in {200, 409})]
           d2 == IF r.err \/ r.status # 200 \/ jsonOk THEN TouchStore(d1, o1) ELSE d1
           d == IF res = "escape" \/ (res = "next" /\ (r.err \/ o1.raised \/ ~jsonOk))
                THEN TouchStore(d2, o2) ELSE d2
       IN CASE res = "success" ->
                 /\ Stay(w, "final_log", [d EXCEPT !.counted = @ \cup {"success"}])
                 /\ UNCHANGED attempt
            [] res = "escape" -> ToExcept(w, d) /\ UNCHANGED attempt
            [] OTHER ->
                 IF attempt[w] + 1 < COMPLETE_ATTEMPTS
                 THEN /\ Stay(w, "des_complete", d)
                      /\ attempt' = [attempt EXCEPT ![w] = @ + 1]
                 ELSE \* raise RuntimeError("Failed to report task completion")
                      ToExcept(w, d) /\ UNCHANGED attempt
    /\ AgentFrame

\* ------------------------------------------- handle_message, after the agent
\* ch.basic_ack at the end of the try block; finally: discard
AckSuccess(w) ==
    /\ pc[w] = "ack_ok"
    /\ Acked(w)
    /\ Discard(w)
    /\ Goto(w, "done", BasicAck(w, dlv[w]))
    /\ AgentFrame /\ UNCHANGED attempt

\* An exception leaves the except block: the finally clause still runs.
RaiseFinally(w, d) ==
    /\ Discard(w)
    /\ Goto(w, "raised", d)
    /\ UNCHANGED msgState

\* except Exception: retries = get_retry_count(task_id)
ReadRetryCount(w, o) ==
    /\ pc[w] = "except"
    /\ LET d == TouchStore(dlv[w], o)
       IN IF o.raised
          THEN RaiseFinally(w, d) /\ UNCHANGED retries
          ELSE /\ Stay(w, "incr", [d EXCEPT !.retryRead = TRUE])
               /\ retries' = [retries EXCEPT ![w] = retry_count[task_id[w]]]
    /\ UNCHANGED <<storage, calc, job_id, active, msgBody, deliveries, rowAgent, retry_count, cur,
                   task_id, agent_type_db, payloadClass, attempt, hist>>

\* increment_retry(task_id): UPDATE ... retry_count = retry_count + 1
IncrementRetry(w, o) ==
    /\ pc[w] = "incr"
    /\ retry_count' = [retry_count EXCEPT ![task_id[w]] = @ + o.applied]
    /\ LET d == TouchStore(dlv[w], o)
       IN IF o.raised THEN RaiseFinally(w, d) ELSE Stay(w, "fail_log", d)
    /\ UNCHANGED <<storage, calc, job_id, active, msgBody, deliveries, rowAgent, cur,
                   task_id, agent_type_db, payloadClass, retries, attempt, hist>>

RetriesExhausted(r) == r + 1 >= MAX_RETRIES

\* log_task("Execution failed"); if retries + 1 >= MAX_RETRIES
LogFailure(w, o) ==
    /\ pc[w] = "fail_log"
    /\ LET d == TouchStore(dlv[w], o)
       IN IF o.raised THEN RaiseFinally(w, d)
          ELSE Stay(w, IF RetriesExhausted(retries[w]) THEN "fail_post" ELSE "retry_log", d)
    /\ AgentFrame /\ UNCHANGED attempt

\* requests.post(.../fail) with no try/except around it
PostFail(w, r) ==
    /\ pc[w] = "fail_post"
    /\ LET d == [dlv[w] EXCEPT !.fails = @ + 1, !.failErr = @ \/ r.err,
                               !.failMsg = "exception",
                               !.dispFail = IF r.err THEN "err" ELSE "sent"]
       IN IF r.err THEN RaiseFinally(w, d)
          ELSE Stay(w, "dlq_log", [d EXCEPT !.counted = @ \cup {"failed"}])
    /\ AgentFrame /\ UNCHANGED attempt

\* log_task("Moved to DLQ"); basic_ack; finally: discard
AckFailed(w, o) ==
    /\ pc[w] = "dlq_log"
    /\ LET d == TouchStore(dlv[w], o)
       IN IF o.raised THEN RaiseFinally(w, d)
          ELSE /\ Acked(w)
               /\ Discard(w)
               /\ Goto(w, "done", BasicAck(w, d))
    /\ AgentFrame /\ UNCHANGED attempt

\* log_task("Retrying"); sleep; basic_nack(requeue=True); finally: discard
NackRetry(w, o) ==
    /\ pc[w] = "retry_log"
    /\ LET d == TouchStore(dlv[w], o)
       IN IF o.raised THEN RaiseFinally(w, d)
          ELSE /\ Requeued(w)
               /\ Discard(w)
               /\ Goto(w, "done", BasicNack(w, d))
    /\ AgentFrame /\ UNCHANGED attempt

\* --------------------------------------------------- between two deliveries
Fold(w) ==
    hist' = IF task_id[w] \in Tasks
            THEN [hist EXCEPT ![task_id[w]] = FoldHist(@, dlv[w])]
            ELSE hist

\* The locals of handle_message end with the call.
Forget(w) ==
    /\ cur' = [cur EXCEPT ![w] = NoMsg]
    /\ task_id' = [task_id EXCEPT ![w] = NoTask]
    /\ agent_type_db' = [agent_type_db EXCEPT ![w] = NoRow]
    /\ payloadClass' = [payloadClass EXCEPT ![w] = "ok"]
    /\ retries' = [retries EXCEPT ![w] = 0]
    /\ attempt' = [attempt EXCEPT ![w] = 0]
    /\ job_id' = [job_id EXCEPT ![w] = NoJob]
    /\ dlv' = [dlv EXCEPT ![w] = IdleDelivery]

\* handle_message returned; the consumer waits for the next delivery
HandlerReturns(w) ==
    /\ pc[w] = "done"
    /\ pc' = [pc EXCEPT ![w] = "idle"]
    /\ Fold(w)
    /\ Forget(w)
    /\ UNCHANGED <<storage, calc, active, msgBody, msgState, deliveries, rowAgent, retry_count,
                   in_progress_tasks>>

\* handle_message raised and its caller keeps the process: the module state
\* (in_progress_tasks) stays, the delivery stays unacknowledged.
CallerResumes(w) ==
    /\ pc[w] = "raised"
    /\ pc' = [pc EXCEPT ![w] = "idle"]
    /\ Fold(w)
    /\ Forget(w)
    /\ UNCHANGED <<storage, calc, active, msgBody, msgState, deliveries, rowAgent, retry_count,
                   in_progress_tasks>>

\* handle_message raised out of start_consuming: the process ends and is
\* started again; the broker requeues what it held unacknowledged.
ProcessRestarts(w) ==
    /\ pc[w] = "raised"
    /\ pc' = [pc EXCEPT ![w] = "idle"]
    /\ in_progress_tasks' = [in_progress_tasks EXCEPT ![w] = {}]
    /\ msgState' = [m \in Msgs |-> IF msgState[m] = w THEN "ready" ELSE msgState[m]]
    /\ Fold(w)
    /\ Forget(w)
    /\ UNCHANGED <<storage, calc, active, msgBody, deliveries, rowAgent, retry_count>>

\* ------------------------------------------------------------------- Next
Next ==
    \E w \in Workers :
        \/ \E m \in Msgs : ReceiveMalformed(w, m)
        \/ \E m \in Msgs : ReceiveDuplicate(w, m)
        \/ \E m \in Msgs : ReceiveNew(w, m)
        \/ \E o \in QueryOutcomes : LoadContext(w, o)
        \/ \E o \in QueryOutcomes : TaskNotFound(w, o)
        \/ \E r \in HttpResults : StartOwned(w, r)
        \/ \E r \in HttpResults : StartRefused(w, r)
        \/ StartNetErr(w)
        \/ \E o \in QueryOutcomes : StartFailed(w, o)
        \/ \E o \in QueryOutcomes, p \in PayloadClasses : Dispatch(w, o, p)
        \/ \E x \in ReviewerOutcomes : RunReviewer(w, x)
        \/ \E r \in HttpResults : PostReview(w, r)
        \/ \E o \in QueryOutcomes : ChartCheck(w, o)
        \/ \E r \in HttpResults, o \in QueryOutcomes : ChartFail(w, r, o)
        \/ \E ok \in BOOLEAN : AgentBody(w, ok)
        \/ \E ok \in BOOLEAN : AgentPut(w, ok)
        \/ \E r \in HttpResults : AgentComplete(w, r)
        \/ \E o \in QueryOutcomes : FinalLog(w, o)
        \/ \E o \in QueryOutcomes : CustomBody(w, o)
        \/ \E ok \in BOOLEAN, o1 \in QueryOutcomes, o2 \in QueryOutcomes :
               CustomPut(w, ok, o1, o2)
        \/ \E o \in QueryOutcomes : DesignerCheck(w, o)
        \/ \E o \in QueryOutcomes : DesignerPrepare(w, o)
        \/ \E ok \in BOOLEAN, o \in QueryOutcomes : DesignerGenerate(w, ok, o)
        \/ \E ok \in BOOLEAN, o \in QueryOutcomes : DesignerPut(w, ok, o)
        \/ \E r \in HttpResults, j \in BOOLEAN, o1 \in QueryOutcomes, o2 \in QueryOutcomes :
               DesignerComplete(w, r, j, o1, o2)
        \/ AckSuccess(w)
        \/ \E o \in QueryOutcomes : ReadRetryCount(w, o)
        \/ \E o \in DbOutcomes : IncrementRetry(w, o)
        \/ \E o \in QueryOutcomes : LogFailure(w, o)
        \/ \E r \in HttpResults : PostFail(w, r)
        \/ \E o \in QueryOutcomes : AckFailed(w, o)
        \/ \E o \in QueryOutcomes : NackRetry(w, o)
        \/ HandlerReturns(w)
        \/ CallerResumes(w)
        \/ ProcessRestarts(w)

Spec == Init /\ [][Next]_vars

\* ============================================== agent functions on their own
\* Everything but calc: the state of the dispatcher.
dispatcherVars ==
    <<active, msgBody, msgState, deliveries, rowAgent, retry_count,
      in_progress_tasks, pc, cur, task_id, agent_type_db, payloadClass,
      retries, attempt, dlv, hist, job_id, storage>>

\* No worker consumes: the function under study is called directly.
NoDispatcher ==
    /\ active = {}
    /\ msgBody = [m \in Msgs |-> Malformed]
    /\ msgState = [m \in Msgs |-> "ready"]
    /\ deliveries = 0
    /\ rowAgent = [t \in Tasks |-> NoRow]
    /\ retry_count = [t \in Tasks |-> 0]
    /\ in_progress_tasks = [w \in Workers |-> {}]
    /\ pc = [w \in Workers |-> "idle"]
    /\ cur = [w \in Workers |-> NoMsg]
    /\ task_id = [w \in Workers |-> NoTask]
    /\ agent_type_db = [w \in Workers |-> NoRow]
    /\ payloadClass = [w \in Workers |-> "ok"]
    /\ retries = [w \in Workers |-> 0]
    /\ attempt = [w \in Workers |-> 0]
    /\ dlv = [w \in Workers |-> IdleDelivery]
    /\ hist = [t \in Tasks |-> NoHist]
    /\ job_id = [w \in Workers |-> NoJob]
    /\ storage = {}

\* ------------------------------------------------------------ run_reviewer
\* payload.get("score_threshold", 80): NoThreshold = the key is absent
NoThreshold == -1
DEFAULT_SCORE_THRESHOLD == 80
Thresholds == {NoThreshold, 0, 20, 80, 95, 100}

\* What the AI call gives: it raised, it answered without a "Score: <n>"
\* line, or it answered with score n.
AiScores == {0, 79, 80, 95, 150}
AiOutcomes ==
    {[kind |-> "raise", score |-> 0], [kind |-> "noscore", score |-> 0]}
        \cup {[kind |-> "score", score |-> n] : n \in AiScores}

\* The row of the target task: missing, or its status and whether result is
\* empty.
TargetRows ==
    {[found |-> FALSE, status |-> "none", empty |-> TRUE],
     [found |-> TRUE, status |-> "FAILED", empty |-> FALSE],
     [found |-> TRUE, status |-> "SUCCESS", empty |-> TRUE],
     [found |-> TRUE, status |-> "SUCCESS", empty |-> FALSE]}

ReviewerInputs ==
    [production : BOOLEAN, target : BOOLEAN, threshold : Thresholds,
     row : TargetRows, ai : AiOutcomes]

score_threshold(in) ==
    IF in.threshold = NoThreshold THEN DEFAULT_SCORE_THRESHOLD ELSE in.threshold

Review(s, d) == [score |-> s, decision |-> d]
NoReview == Review(-1, "none")

\* score = 85; "Score: n" of the AI answer replaces it; except: score = 90
AiScore(ai) ==
    CASE ai.kind = "raise" -> 90
      [] ai.kind = "noscore" -> 85
      [] OTHER -> ai.score

run_reviewer(in) ==
    IF ~in.production THEN Review(90, "APPROVE")
    ELSE IF ~in.target THEN Review(0, "REJECT")
    ELSE IF ~in.row.found THEN Review(0, "REJECT")
    ELSE IF in.row.status # "SUCCESS" THEN Review(20, "REJECT")
    ELSE IF in.row.empty THEN Review(30, "REJECT")
    ELSE Review(AiScore(in.ai),
                IF AiScore(in.ai) >= score_threshold(in) THEN "APPROVE" ELSE "REJECT")

InitReviewer ==
    /\ NoDispatcher
    /\ calc \in {[fn |-> "run_reviewer", in |-> i, review |-> NoReview,
                  posted |-> NoReview] : i \in ReviewerInputs}

\* review = run_reviewer(task_id, task_payload_db)
ReviewerReturns ==
    /\ calc.fn = "run_reviewer"
    /\ calc.review = NoReview
    /\ calc' = [calc EXCEPT !.review = run_reviewer(calc.in)]
    /\ UNCHANGED dispatcherVars

\* requests.post(.../review, json=review)
ReviewPosted ==
    /\ calc.fn = "run_reviewer"
    /\ calc.review # NoReview
    /\ calc.posted = NoReview
    /\ calc' = [calc EXCEPT !.posted = calc.review]
    /\ UNCHANGED dispatcherVars

NextReviewer == ReviewerReturns \/ ReviewPosted

SpecReviewer == InitReviewer /\ [][NextReviewer]_vars

\* ------------------------------------------------------------ run_designer
\* Longest list of sections of a designer payload.
MaxSections == 2

DESIGNER_ROLE == "report"

\* Artifact rows and payload-embedded artifacts; storage_key "" is a row
\* without a key.
Artifact(i, t, r, k) == [id |-> i, type |-> t, role |-> r, storage_key |-> k]
NoArtifact == Artifact("", "", "", "")
A1 == Artifact("a1", "chart", "sales_chart", "k1")
A2 == Artifact("a2", "chart", "trend", "k2")
A3 == Artifact("a3", "image", "logo", "")
A4 == Artifact("a4", "chart", "sales_chart", "k4")

\* fetch_job_artifacts_from_db(job_id) and payload.get("artifacts", [])
DbCatalogs == {<<>>, <<A1>>, <<A1, A2>>, <<A3, A2>>}
PayloadCatalogs == {<<>>, <<A2>>, <<A4>>}

\* section["artifact"]: key absent, null, or a {type, role} object
Ref(f, t, r) == [form |-> f, type |-> t, role |-> r]
ArtifactRefs ==
    {Ref("absent", "", ""), Ref("null", "", ""),
     Ref("dict", "chart", "sales_chart"), Ref("dict", "table", "summary"),
     Ref("dict", "image", "sales")}

\* section["content"]: plain text, or text holding the download URL
\* /api/artifacts/<id>/download of artifact a1 or of an unknown artifact
Contents == {"text", "url:a1", "url:zz"}

\* url_re.search(content): the id in the URL, "" when there is none
UrlId(c) ==
    CASE c = "url:a1" -> "a1"
      [] c = "url:zz" -> "zz"
      [] OTHER -> ""

SectionForms == [ref : ArtifactRefs, content : Contents]

SeqsUpTo(S, n) == UNION {[1..k -> S] : k \in 0..n}

\* storage keys whose get_object raises
BadKeySets == {{}, {"k1"}}

DesignerInputs ==
    [sections : SeqsUpTo(SectionForms, MaxSections),
     artifacts : PayloadCatalogs,
     all_job_artifacts : DbCatalogs,
     badKeys : BadKeySets]

\* "artifact" in s
HasArtifactKey(sec) == sec.ref.form # "absent"
\* s.get("artifact") is truthy
HasArtifactRef(sec) == sec.ref.form = "dict"

\* len([s for s in sections if "artifact" in s])
artifact_refs_count(sections) ==
    Cardinality({i \in DOMAIN sections : HasArtifactKey(sections[i])})

\* {a.get("id"): a for a in combined_artifacts if a.get("id")}: the last
\* artifact with the id
artifact_by_id(cat, id) ==
    IF \E i \in DOMAIN cat : cat[i].id = id /\ id # ""
    THEN cat[CHOOSE i \in DOMAIN cat :
                 cat[i].id = id /\ \A j \in (i + 1)..Len(cat) : cat[j].id # id]
    ELSE NoArtifact

\* Backwards compatibility step of run_designer: a section without artifact
\* reference whose content holds the download URL of a known artifact gets
\* that artifact's {type, role} as reference and an empty content.
Backfill(sec, cat) ==
    LET art == artifact_by_id(cat, UrlId(sec.content))
    IN IF HasArtifactKey(sec) /\ HasArtifactRef(sec) THEN sec
       ELSE IF UrlId(sec.content) # "" /\ art # NoArtifact
                 /\ art.type # "" /\ art.role # ""
            THEN [ref |-> Ref("dict", art.type, art.role), content |-> ""]
            ELSE sec

\* latex_pdf._find_artifact_for_section for a {type, role} reference
FindExact(ref, a) == a.type = ref.type /\ a.role = ref.role
FindType(ref, a) == a.type = ref.type

\* "for a in artifacts: if ...: return a": the first artifact that passes
FirstExact(ref, cat) ==
    IF \E i \in DOMAIN cat : FindExact(ref, cat[i])
    THEN cat[CHOOSE i \in DOMAIN cat :
                 FindExact(ref, cat[i]) /\ \A j \in 1..(i - 1) : ~FindExact(ref, cat[j])]
    ELSE NoArtifact

FirstOfType(ref, cat) ==
    IF \E i \in DOMAIN cat : FindType(ref, cat[i])
    THEN cat[CHOOSE i \in DOMAIN cat :
                 FindType(ref, cat[i]) /\ \A j \in 1..(i - 1) : ~FindType(ref, cat[j])]
    ELSE NoArtifact

find_artifact_for_section(sec, cat) ==
    IF ~HasArtifactRef(sec) THEN NoArtifact
    ELSE IF FirstExact(sec.ref, cat) # NoArtifact THEN FirstExact(sec.ref, cat)
    ELSE FirstOfType(sec.ref, cat)

\* "if artifact and artifact.get('storage_key')": the section is to be
\* rendered from the artifact's bytes
Embeds(sec, cat) == find_artifact_for_section(sec, cat).storage_key # ""

\* _download_s3_to_path raises for this section
FetchFails(sec, cat, bad) ==
    Embeds(sec, cat) /\ find_artifact_for_section(sec, cat).storage_key \in bad

\* generate_pdf_from_payload: the loop over the sections has no try/except,
\* so the first download that raises ends the call.
generate_pdf_from_payload(sections, cat, bad) ==
    LET kinds == [i \in DOMAIN sections |->
                     IF Embeds(sections[i], cat) THEN "image" ELSE "text"]
        raised == \E i \in DOMAIN sections : FetchFails(sections[i], cat, bad)
    IN [raised |-> raised,
        kinds |-> IF raised THEN <<>> ELSE kinds,
        picked |-> IF raised THEN <<>>
                   ELSE [i \in DOMAIN sections |->
                            find_artifact_for_section(sections[i], cat)],
        embedded_artifacts |->
            IF raised THEN 0
            ELSE Cardinality({i \in DOMAIN kinds : kinds[i] = "image"}),
        section_count |-> IF raised THEN 0 ELSE Len(kinds)]

NoLatex == [raised |-> FALSE, kinds |-> <<>>, picked |-> <<>>,
            embedded_artifacts |-> -1,
            section_count |-> -1]
NoMetadata == [embedded_artifacts |-> -1, section_count |-> -1, role |-> "none"]

InitDesigner ==
    /\ NoDispatcher
    /\ calc \in {[fn |-> "run_designer", in |-> i, step |-> "start",
                  raised |-> FALSE,
                  refs |-> 0,
                  combined_artifacts |-> <<>>,
                  sections |-> i.sections,
                  latex |-> NoLatex,
                  metadata |-> NoMetadata] : i \in DesignerInputs}

\* "if not sections: raise ValueError"; artifact_refs_count;
\* combined_artifacts = artifacts + all_job_artifacts; the backfill loop
DesignerPreprocess ==
    /\ calc.fn = "run_designer" /\ calc.step = "start"
    /\ IF calc.in.sections = <<>>
       THEN calc' = [calc EXCEPT !.step = "done", !.raised = TRUE]
       ELSE LET cat == calc.in.artifacts \o calc.in.all_job_artifacts
            IN calc' = [calc EXCEPT
                   !.step = "generate",
                   !.refs = artifact_refs_count(calc.in.sections),
                   !.combined_artifacts = cat,
                   !.sections = [i \in DOMAIN calc.in.sections |->
                                    Backfill(calc.in.sections[i], cat)]]
    /\ UNCHANGED dispatcherVars

\* pdf_bytes, latex_metadata = latex_pdf.generate_pdf_from_payload(...)
DesignerRenders ==
    /\ calc.fn = "run_designer" /\ calc.step = "generate"
    /\ LET res == generate_pdf_from_payload(calc.sections, calc.combined_artifacts,
                                            calc.in.badKeys)
       IN calc' = [calc EXCEPT !.latex = res,
                               !.raised = res.raised,
                               !.step = IF res.raised THEN "done" ELSE "report"]
    /\ UNCHANGED dispatcherVars

\* completion_payload["artifact"]["metadata"]
DesignerReports ==
    /\ calc.fn = "run_designer" /\ calc.step = "report"
    /\ calc' = [calc EXCEPT
           !.step = "done",
           !.metadata = [embedded_artifacts |-> calc.refs,
                         section_count |-> Len(calc.sections),
                         role |-> DESIGNER_ROLE]]
    /\ UNCHANGED dispatcherVars

NextDesigner == DesignerPreprocess \/ DesignerRenders \/ DesignerReports

SpecDesigner == InitDesigner /\ [][NextDesigner]_vars

\* ------------------------------------------------------------ run_notifier
\* Longest normalized recipient list.
MaxRecipients == 2

EmailProviders == {"auto", "smtp", "http"}

\* What the SMTP server does: connect/login works or raises; sendmail works
\* for the recipients in ok (by position).
SmtpOutcomes == [connect : BOOLEAN, ok : SUBSET (1..MaxRecipients)]

\* What the HTTP provider answers: 202, an error status, or the POST raises.
SendgridOutcomes == {"accepted", "rejected", "raise"}

\* payload.get("channel", "email"): any other value is only warned about.
Channels == {"email", "slack"}

\* Environment and payload of one notifier run; recipients = length of the
\* normalized list; production = (NODE_ENV is "production").
NotifierInputs ==
    [EMAIL_PROVIDER : EmailProviders,
     GMAIL_USER : BOOLEAN, GMAIL_APP_PASSWORD : BOOLEAN,
     SENDGRID_API_KEY : BOOLEAN, SENDGRID_FROM_EMAIL_env : BOOLEAN,
     recipients : 0..MaxRecipients,
     channel : Channels, production : BOOLEAN,
     smtp : SmtpOutcomes, http : SendgridOutcomes]

SendResult(st, sent, err) == [status |-> st, sent_count |-> sent, error_count |-> err]

\* "if error_count > 0 and sent_count == 0 and status == 'sent'" ...
FinalStatus(st, sent, err) ==
    IF err > 0 /\ sent = 0 /\ st = "sent" THEN "failed"
    ELSE IF err > 0 /\ sent > 0 /\ st = "sent" THEN "partial"
    ELSE st

\* _send_via_smtp for n recipients
send_via_smtp(n, out) ==
    IF ~out.connect THEN SendResult("smtp_error", 0, n)
    ELSE LET sent == Cardinality(out.ok \cap (1..n))
         IN SendResult(FinalStatus("sent", sent, n - sent), sent, n - sent)

\* SENDGRID_FROM_EMAIL = os.getenv("SENDGRID_FROM_EMAIL") or GMAIL_USER
SENDGRID_FROM_EMAIL(in) == in.SENDGRID_FROM_EMAIL_env \/ in.GMAIL_USER

\* from_email of _send_via_sendgrid: which setting the sender address comes
\* from.
from_email(in) ==
    IF in.SENDGRID_FROM_EMAIL_env THEN "SENDGRID_FROM_EMAIL"
    ELSE IF in.GMAIL_USER THEN "GMAIL_USER"
    ELSE "none"

\* _send_via_sendgrid for n recipients
send_via_sendgrid(n, in) ==
    IF ~SENDGRID_FROM_EMAIL(in) THEN SendResult("sendgrid_error", 0, n)
    ELSE IF in.http = "accepted" THEN SendResult("sent", n, 0)
    ELSE SendResult("sendgrid_error", 0, n)

\* Variant: fall back to HTTP after anything but a full SMTP success.
FallsBackUnlessSent(st) == st # "sent"

\* status not in ("sent", "partial")
FallsBack(st) == st \notin {"sent", "partial"}

InitNotifier ==
    /\ NoDispatcher
    /\ calc \in {[fn |-> "run_notifier", in |-> i, step |-> "start",
                  status |-> "sent", sent_count |-> 0, error_count |-> 0,
                  email_provider_used |-> "none",
                  attempts |-> <<>>,
                  smtp_sent |-> -1,
                  sender |-> "none", http_posted |-> FALSE,
                  http_status |-> "none", final_status |-> "none",
                  stored |-> FALSE, fails |-> 0, completes |-> 0,
                  reported |-> "none"] : i \in NotifierInputs}

\* "if not recipients: status = 'no_recipients'"
NotifierStart ==
    /\ calc.fn = "run_notifier" /\ calc.step = "start"
    /\ calc' = IF calc.in.recipients = 0
               THEN [calc EXCEPT !.status = "no_recipients", !.step = "selected"]
               ELSE [calc EXCEPT !.step = "smtp"]
    /\ UNCHANGED dispatcherVars

\* "if EMAIL_PROVIDER in ('auto', 'smtp'):" block
NotifierSmtp ==
    /\ calc.fn = "run_notifier" /\ calc.step = "smtp"
    /\ LET in == calc.in
           n == in.recipients
           res == send_via_smtp(n, in.smtp)
       IN calc' =
            IF in.EMAIL_PROVIDER \notin {"auto", "smtp"}
            THEN [calc EXCEPT !.step = "http"]
            ELSE IF in.GMAIL_USER /\ in.GMAIL_APP_PASSWORD
            THEN [calc EXCEPT
                    !.step = "http",
                    !.attempts = Append(@, "smtp"),
                    !.smtp_sent = res.sent_count,
                    !.sent_count = @ + res.sent_count,
                    !.error_count = @ + res.error_count,
                    !.status = res.status,
                    !.email_provider_used =
                        IF res.status \in {"sent", "partial"} THEN "gmail_smtp" ELSE @]
            ELSE [calc EXCEPT
                    !.step = "http",
                    !.status = "missing_credentials",
                    !.error_count = IF in.EMAIL_PROVIDER = "smtp" THEN n ELSE @]
    /\ UNCHANGED dispatcherVars

\* the HTTP fallback of auto mode and the HTTP-only mode
NotifierHttp ==
    /\ calc.fn = "run_notifier" /\ calc.step = "http"
    /\ LET in == calc.in
           n == in.recipients
           res == send_via_sendgrid(n, in)
           sent == [calc EXCEPT
                      !.step = "selected",
                      !.attempts = Append(@, "http"),
                      !.sender = from_email(in),
                      !.http_posted = (from_email(in) # "none"),
                      !.http_status = res.status,
                      !.sent_count = res.sent_count,
                      !.error_count = res.error_count,
                      !.status = res.status,
                      !.email_provider_used = "sendgrid_http"]
       IN calc' =
            IF in.EMAIL_PROVIDER = "auto" /\ FallsBack(calc.status) /\ in.SENDGRID_API_KEY
            THEN sent
            ELSE IF in.EMAIL_PROVIDER = "auto" /\ FallsBack(calc.status)
                      /\ ~in.SENDGRID_API_KEY
            THEN [calc EXCEPT !.step = "selected"]
            ELSE IF in.EMAIL_PROVIDER = "http"
            THEN IF in.SENDGRID_API_KEY THEN sent
                 ELSE [calc EXCEPT !.step = "selected",
                                   !.status = "missing_credentials",
                                   !.error_count = n]
            ELSE [calc EXCEPT !.step = "selected"]
    /\ UNCHANGED dispatcherVars

\* status in {"no_recipients", "missing_credentials", "failed", ...}
FailingStatuses ==
    {"no_recipients", "missing_credentials", "failed", "smtp_error",
     "sendgrid_error"}

\* "Determine final status", then s3_client.put_object(...) of the
\* notification record; put_object raising ends the run.
NotifierPut(ok) ==
    /\ calc.fn = "run_notifier" /\ calc.step = "selected"
    /\ LET st == FinalStatus(calc.status, calc.sent_count, calc.error_count)
       IN calc' = [calc EXCEPT !.status = st, !.final_status = st,
                               !.stored = ok,
                               !.step = IF ok THEN "stored" ELSE "raised"]
    /\ UNCHANGED dispatcherVars

\* should_fail, the dev-mode rewrite, and the fail or complete POST; the
\* fail POST is inside try/except, the complete POST is not.
NotifierReport(r) ==
    /\ calc.fn = "run_notifier" /\ calc.step = "stored"
    /\ LET in == calc.in
           should_fail == in.channel = "email" /\ calc.status \in FailingStatuses
           is_dev == ~in.production
           skip == is_dev /\ should_fail
           st == IF skip THEN "skipped" ELSE calc.status
       IN calc' =
            IF should_fail /\ ~skip
            THEN [calc EXCEPT !.fails = @ + 1, !.reported = st,
                              !.step = "returned"]
            ELSE [calc EXCEPT !.status = st,
                              !.sent_count = IF skip THEN 0 ELSE @,
                              !.error_count = IF skip THEN 0 ELSE @,
                              !.completes = @ + 1, !.reported = st,
                              !.step = IF r.err THEN "raised" ELSE "returned"]
    /\ UNCHANGED dispatcherVars

NextNotifier ==
    \/ NotifierStart
    \/ NotifierSmtp
    \/ NotifierHttp
    \/ \E ok \in BOOLEAN : NotifierPut(ok)
    \/ \E r \in {Resp(200), NetErr} : NotifierReport(r)

SpecNotifier == InitNotifier /\ [][NextNotifier]_vars

\* ------------------------------------------- run_notifier: the recipients
\* A string is a sequence of one-character strings.
\* Longest recipients string that is enumerated.
MaxChars == 3

Alphabet == {"a", "c", " ", ",", ";", "\n", "[", "]", "\""}
Whitespace == {" ", "\n", "\r", "\t"}

\* the string of the specification's example and its addresses
AB == <<"a", "@", "b", ".", "c", "o", "m">>
CD == <<"c", "@", "d", ".", "c", "o", "m">>
XY == <<"x", "@", "y", ".", "z">>
ExampleRecipients == <<"[">> \o AB \o <<";", " ">> \o CD \o <<"]", "\n">> \o XY

\* further strings beyond MaxChars: nested JSON, carriage returns, quotes
MoreRecipients ==
    {ExampleRecipients,
     <<"[", "\"", "a", "\"", ",", " ", "\"", "a", "\"", "]">>,
     <<"[", "[", "\"", "a", "\"", "]", "]">>,
     <<"a", "\r", "c", ";", "'", "a", "'">>,
     <<"[", "a", ",", " ", "c", "]">>}

\* a JSON value: a string or an array of values
JStr(x) == [t |-> "str", s |-> x, items |-> <<>>]
JList(xs) == [t |-> "list", s |-> <<>>, items |-> xs]

\* payload recipients: a list of None and strings, a string, or another type
NoneItem == [t |-> "none", s |-> <<>>, items |-> <<>>]
ListItems == {NoneItem, JStr(<<"a">>), JStr(<<" ", "a">>), JStr(<<>>), JStr(<<"c">>)}
RecipientInputs ==
    {[form |-> "str", s |-> x, items |-> <<>>] :
        x \in SeqsUpTo(Alphabet, MaxChars) \cup MoreRecipients}
      \cup {[form |-> "list", s |-> <<>>, items |-> xs] : xs \in SeqsUpTo(ListItems, 2)}
      \cup {[form |-> "other", s |-> <<>>, items |-> <<>>]}

\* str.strip() and str.strip(chars)
RECURSIVE lstrip(_, _)
lstrip(x, cs) ==
    IF x # <<>> /\ Head(x) \in cs THEN lstrip(Tail(x), cs) ELSE x

RECURSIVE rstrip(_, _)
rstrip(x, cs) ==
    IF x # <<>> /\ x[Len(x)] \in cs THEN rstrip(SubSeq(x, 1, Len(x) - 1), cs) ELSE x

strip(x, cs) == rstrip(lstrip(x, cs), cs)

\* json.loads: whitespace, strings without control characters, arrays
RECURSIVE SkipWs(_, _)
SkipWs(x, i) ==
    IF i <= Len(x) /\ x[i] \in Whitespace THEN SkipWs(x, i + 1) ELSE i

JFail == [ok |-> FALSE, val |-> NoneItem, next |-> 0]
JOk(v, n) == [ok |-> TRUE, val |-> v, next |-> n]

RECURSIVE ParseString(_, _, _)
ParseString(x, i, acc) ==
    IF i > Len(x) \/ x[i] \in {"\n", "\r", "\t"} THEN JFail
    ELSE IF x[i] = "\"" THEN JOk(JStr(acc), i + 1)
    ELSE ParseString(x, i + 1, Append(acc, x[i]))

RECURSIVE ParseValue(_, _)
RECURSIVE ParseElems(_, _, _)
ParseValue(x, i) ==
    IF i > Len(x) THEN JFail
    ELSE IF x[i] = "\"" THEN ParseString(x, i + 1, <<>>)
    ELSE IF x[i] = "[" THEN
        LET k == SkipWs(x, i + 1)
        IN IF k <= Len(x) /\ x[k] = "]" THEN JOk(JList(<<>>), k + 1)
           ELSE ParseElems(x, k, <<>>)
    ELSE JFail

ParseElems(x, i, acc) ==
    LET v == ParseValue(x, i)
        k == SkipWs(x, v.next)
    IN IF ~v.ok \/ k > Len(x) THEN JFail
       ELSE IF x[k] = "]" THEN JOk(JList(Append(acc, v.val)), k + 1)
       ELSE IF x[k] = "," THEN ParseElems(x, SkipWs(x, k + 1), Append(acc, v.val))
       ELSE JFail

json_loads(x) ==
    LET v == ParseValue(x, SkipWs(x, 1))
    IN IF v.ok /\ SkipWs(x, v.next) = Len(x) + 1 THEN v ELSE JFail

\* re.split(r"[\n,;]+", cleaned), without the empty pieces
RECURSIVE re_split(_, _, _)
re_split(x, piece, acc) ==
    IF x = <<>> THEN (IF piece = <<>> THEN acc ELSE Append(acc, piece))
    ELSE IF Head(x) \in {"\n", ",", ";"}
    THEN re_split(Tail(x), <<>>, IF piece = <<>> THEN acc ELSE Append(acc, piece))
    ELSE re_split(Tail(x), Append(piece, Head(x)), acc)

\* str(r) of a list item: a string is itself, a list is its repr
RECURSIVE str(_)
RECURSIVE repr_items(_)
str(v) ==
    IF v.t = "str" THEN v.s
    ELSE <<"[">> \o repr_items(v.items) \o <<"]">>

repr_items(vs) ==
    IF vs = <<>> THEN <<>>
    ELSE (IF Head(vs).t = "str" THEN <<"'">> \o Head(vs).s \o <<"'">>
          ELSE str(Head(vs)))
         \o (IF Len(vs) > 1 THEN <<",", " ">> ELSE <<>>)
         \o repr_items(Tail(vs))

MapSeq(f(_), xs) == [i \in DOMAIN xs |-> f(xs[i])]

RECURSIVE SelectNonEmpty(_)
SelectNonEmpty(xs) ==
    IF xs = <<>> THEN <<>>
    ELSE (IF Head(xs) = <<>> THEN <<>> ELSE <<Head(xs)>>) \o SelectNonEmpty(Tail(xs))

\* "if isinstance(recipients, str):" block: the list the string stands for
parsed_list(recipients) ==
    LET raw == strip(recipients, Whitespace)
        parsed == IF raw = <<>> THEN JFail ELSE json_loads(raw)
        bracketed == raw # <<>> /\ Head(raw) = "[" /\ raw[Len(raw)] = "]"
        cleaned0 == IF bracketed THEN SubSeq(raw, 2, Len(raw) - 1) ELSE raw
        cleaned == [i \in DOMAIN cleaned0 |->
                        IF cleaned0[i] = "\r" THEN "\n" ELSE cleaned0[i]]
        unquote(q) == strip(strip(strip(q, Whitespace), {"\""}), {"'"})
        parts == re_split(cleaned, <<>>, <<>>)
        nonblank == [i \in DOMAIN parts |-> strip(parts[i], Whitespace) # <<>>]
        RECURSIVE pick(_)
        pick(i) == IF i > Len(parts) THEN <<>>
                   ELSE (IF nonblank[i] THEN <<JStr(unquote(parts[i]))>> ELSE <<>>)
                        \o pick(i + 1)
    IN IF parsed.ok /\ parsed.val.t = "list" THEN parsed.val.items
       ELSE IF parsed.ok THEN <<parsed.val>>
       ELSE pick(1)

\* recipients after "Final normalization": a sequence of strings
normalized_recipients(in) ==
    LET lst == CASE in.form = "str" -> parsed_list(in.s)
                 [] in.form = "list" -> in.items
                 [] OTHER -> <<>>
        one(v) == IF v.t = "none" THEN <<>> ELSE strip(str(v), Whitespace)
    IN SelectNonEmpty(MapSeq(one, lst))

NoRecipients == <<"?">>

InitRecipients ==
    /\ NoDispatcher
    /\ calc \in {[fn |-> "recipients", in |-> i, recipients |-> NoRecipients] :
                    i \in RecipientInputs}

\* lines 2007-2035 of run_notifier
NormalizeRecipients ==
    /\ calc.fn = "recipients"
    /\ calc.recipients = NoRecipients
    /\ calc' = [calc EXCEPT !.recipients = normalized_recipients(calc.in)]
    /\ UNCHANGED dispatcherVars

NextRecipients == NormalizeRecipients

SpecRecipients == InitRecipients /\ [][NextRecipients]_vars

\* --------------------------------------------- ai_helper.generate_ai_response
\* @retry(stop=stop_after_attempt(3), ...)
STOP_AFTER_ATTEMPT == 3

\* What one call of a provider's API gives: text, an empty answer, an error
\* whose text has "rate", "quota" or "429", or another error.
ProviderOutcomes == {"text", "empty", "rate", "error"}

\* AI_PROVIDER, whether the clients can be initialized (API keys), and the
\* caller's prefer_perplexity
AiInputs ==
    [AI_PROVIDER : {"perplexity", "sambanova"},
     perplexity : BOOLEAN, sambanova : BOOLEAN,
     prefer_perplexity : BOOLEAN]

\* Variant: the provider list is used whatever AI_PROVIDER is.
SingleProviderNever(in) == FALSE

\* "if AI_PROVIDER == 'perplexity':" at the top of generate_ai_response
SingleProvider(in) == in.AI_PROVIDER = "perplexity"

\* The providers generate_ai_response calls, in order: with
\* AI_PROVIDER = "perplexity" only generate_with_perplexity, otherwise the
\* list built from the initialized clients.
providers(in) ==
    IF SingleProvider(in) THEN <<"perplexity">>
    ELSE (IF in.prefer_perplexity /\ in.perplexity THEN <<"perplexity">> ELSE <<>>)
         \o (IF in.sambanova THEN <<"sambanova">> ELSE <<>>)
         \o (IF in.perplexity /\ ~in.prefer_perplexity THEN <<"perplexity">> ELSE <<>>)

\* What a generate_with_* attempt raises for an outcome of the API call
Raised(out) ==
    CASE out = "rate" -> "RateLimitException"
      [] out \in {"empty", "error"} -> "AIException"
      [] OTHER -> "none"

\* Variant: tenacity retries after every exception.
RetriedAlways(exc) == exc # "none"

\* retry=retry_if_exception_type(RateLimitException)
Retried(exc) == exc = "RateLimitException"

AiResult(k, m) == [kind |-> k, message |-> m]
NoAiResult == AiResult("none", "")

InitAi ==
    /\ NoDispatcher
    /\ calc \in {[fn |-> "generate_ai_response", in |-> i, step |-> "start",
                   direct |-> FALSE, idx |-> 1, attempt_number |-> 0,
                   calls |-> <<>>, result |-> NoAiResult] : i \in AiInputs}

\* "if AI_PROVIDER == 'perplexity': if not _init_perplexity(): raise ..."
AiStart ==
    /\ calc.fn = "generate_ai_response" /\ calc.step = "start"
    /\ calc' =
         IF SingleProvider(calc.in)
         THEN IF ~calc.in.perplexity
              THEN [calc EXCEPT !.step = "done", !.direct = TRUE,
                       !.result = AiResult("AIException", "Perplexity client not configured")]
              ELSE [calc EXCEPT !.step = "call", !.direct = TRUE]
         ELSE [calc EXCEPT !.step = "call"]
    /\ UNCHANGED dispatcherVars

\* One attempt of generate_with_<provider> under the tenacity decorator.
\* After the last attempt tenacity raises RetryError (reraise is not set),
\* which neither except clause of generate_ai_response catches; an
\* AIException is raised to the caller of the direct call and caught in
\* the loop over the providers.
AiCall(out) ==
    /\ calc.fn = "generate_ai_response" /\ calc.step = "call"
    /\ calc.idx <= Len(providers(calc.in))
    /\ LET p == providers(calc.in)[calc.idx]
           n == calc.attempt_number + 1
           c == [calc EXCEPT !.calls = Append(@, [provider |-> p, outcome |-> out]),
                             !.attempt_number = n]
           exc == Raised(out)
       IN calc' =
            IF exc = "none"
            THEN [c EXCEPT !.step = "done", !.result = AiResult("text", "")]
            ELSE IF Retried(exc)
            THEN IF n < STOP_AFTER_ATTEMPT THEN c
                 ELSE [c EXCEPT !.step = "done",
                                !.result = AiResult("RetryError", "")]
            ELSE IF calc.direct
            THEN [c EXCEPT !.step = "done",
                           !.result = AiResult("AIException", "generation failed")]
            ELSE [c EXCEPT !.idx = @ + 1, !.attempt_number = 0]
    /\ UNCHANGED dispatcherVars

\* raise AIException("All AI providers failed or not configured")
AiAllFailed ==
    /\ calc.fn = "generate_ai_response" /\ calc.step = "call"
    /\ calc.idx > Len(providers(calc.in))
    /\ calc' = [calc EXCEPT !.step = "done",
                   !.result = AiResult("AIException", "All AI providers failed")]
    /\ UNCHANGED dispatcherVars

NextAi ==
    \/ AiStart
    \/ \E out \in ProviderOutcomes : AiCall(out)
    \/ AiAllFailed

SpecAi == InitAi /\ [][NextAi]_vars

\* ------------------------------------------- ai_helper._wait_for_rate_limit
\* Time in half seconds; the clock stops at MaxTime.
MaxTime == 5
\* Calls of _wait_for_rate_limit in one behaviour.
MaxCalls == 3

\* RATE_LIMIT_DELAY = 1.0 second
RATE_LIMIT_DELAY == 2

Threads == {"th1", "th2"}

InitRateLimit ==
    /\ NoDispatcher
    /\ calc = [fn |-> "_wait_for_rate_limit",
               now |-> RATE_LIMIT_DELAY,
               last_call |-> 0,
               at |-> [t \in Threads |-> "idle"],
               elapsed |-> [t \in Threads |-> 0],
               wake |-> [t \in Threads |-> 0],
               starts |-> <<>>,
               entered |-> 0]

\* time passes
Tick ==
    /\ calc.fn = "_wait_for_rate_limit"
    /\ calc.now < MaxTime
    /\ calc' = [calc EXCEPT !.now = @ + 1]
    /\ UNCHANGED dispatcherVars

\* a thread calls generate_with_<provider> and enters _wait_for_rate_limit
EnterWait(t) ==
    /\ calc.fn = "_wait_for_rate_limit"
    /\ calc.at[t] = "idle"
    /\ calc.entered < MaxCalls
    /\ calc' = [calc EXCEPT !.at[t] = "read", !.entered = @ + 1]
    /\ UNCHANGED dispatcherVars

\* elapsed = time.time() - _last_perplexity_call
ReadElapsed(t) ==
    /\ calc.fn = "_wait_for_rate_limit"
    /\ calc.at[t] = "read"
    /\ LET e == calc.now - calc.last_call
       IN calc' = [calc EXCEPT
              !.elapsed[t] = e,
              !.wake[t] = IF e < RATE_LIMIT_DELAY
                          THEN calc.now + (RATE_LIMIT_DELAY - e) ELSE calc.now,
              !.at[t] = IF e < RATE_LIMIT_DELAY THEN "sleep" ELSE "write"]
    /\ UNCHANGED dispatcherVars

\* time.sleep(RATE_LIMIT_DELAY - elapsed) returns
Wake(t) ==
    /\ calc.fn = "_wait_for_rate_limit"
    /\ calc.at[t] = "sleep"
    /\ calc.now >= calc.wake[t]
    /\ calc' = [calc EXCEPT !.at[t] = "write"]
    /\ UNCHANGED dispatcherVars

\* _last_perplexity_call = time.time(); the provider call starts
WriteLastCall(t) ==
    /\ calc.fn = "_wait_for_rate_limit"
    /\ calc.at[t] = "write"
    /\ calc' = [calc EXCEPT !.last_call = calc.now,
                            !.starts = Append(@, calc.now),
                            !.at[t] = "call"]
    /\ UNCHANGED dispatcherVars

\* the provider call ends
CallReturns(t) ==
    /\ calc.fn = "_wait_for_rate_limit"
    /\ calc.at[t] = "call"
    /\ calc' = [calc EXCEPT !.at[t] = "idle"]
    /\ UNCHANGED dispatcherVars

NextRateLimit ==
    \/ Tick
    \/ \E t \in Threads :
          \/ EnterWait(t)
          \/ ReadElapsed(t)
          \/ Wake(t)
          \/ WriteLastCall(t)
          \/ CallReturns(t)

SpecRateLimit == InitRateLimit /\ [][NextRateLimit]_vars

\* ================================================================ claims
Finished(w) == pc[w] \in {"done", "raised"}
Task(w) == task_id[w]
NoTerminalRpc(d) == d.completes = 0 /\ d.reviews = 0 /\ d.fails = 0

\* C1: when handle_message finishes a delivery, by return or by exception,
\* exactly one basic_ack or basic_nack(requeue) was issued for it.
C1_ExactlyOneAck ==
    \A w \in Workers : Finished(w) => dlv[w].acks + dlv[w].nacks = 1

\* C2: when handle_message finishes a delivery that put task T into the
\* in-progress set, by return or by exception, T is no longer in the set.
C2_RemovedOnEveryPath ==
    \A w \in Workers :
        (Finished(w) /\ Task(w) \in Tasks /\ Task(w) \notin dlv[w].inprog0)
            => Task(w) \notin in_progress_tasks[w]

\* C3: an agent runs in a delivery only if the start RPC of that delivery
\* answered 200 or 409; after any other status the delivery is over with one
\* ack, no agent run, no complete/review/fail RPC and retry_count as it was.
C3_OwnershipGate ==
    \A w \in Workers :
        LET d == dlv[w] IN
        /\ d.agentRan => (~d.startRes.err /\ d.startRes.status \in {200, 409})
        /\ (~d.startRes.err /\ d.startRes.status \notin {-1, 200, 409})
             => /\ pc[w] = "done"
                /\ d.acks = 1 /\ d.nacks = 0
                /\ ~d.agentRan
                /\ NoTerminalRpc(d)
                /\ retry_count[Task(w)] = d.rc0

C3_Witness ==
    \E w \in Workers :
        /\ pc[w] = "done"
        /\ ~dlv[w].startRes.err /\ dlv[w].startRes.status = 500
        /\ dlv[w].acks = 1

\* C4: when the start RPC raised, the delivery ends with one nack-requeue,
\* no ack, no agent run, no terminal RPC and retry_count as it was.
C4_StartErrorRequeues ==
    \A w \in Workers :
        LET d == dlv[w] IN
        (Finished(w) /\ d.startRes.err)
            => /\ d.nacks = 1 /\ d.acks = 0
               /\ ~d.agentRan
               /\ NoTerminalRpc(d)
               /\ retry_count[Task(w)] = d.rc0

\* C5: when the agent raised and the except block read retry count R, the
\* delivery ends with retry_count = R + 1 and, if R + 1 >= MAX_RETRIES, with
\* a fail POST of the dispatcher and one ack, otherwise with one nack-requeue
\* and no fail POST of the dispatcher.  Stated for the deliveries in which
\* the store connection never dropped.
C5_RetryDecision ==
    \A w \in Workers :
        LET d == dlv[w] IN
        (Finished(w) /\ d.agentRaised /\ d.retryRead /\ ~d.dbDropped)
            => /\ retry_count[Task(w)] = retries[w] + 1
               /\ IF retries[w] + 1 >= 3
                  THEN d.dispFail # "none" /\ d.acks = 1 /\ d.nacks = 0
                  ELSE d.dispFail = "none" /\ d.nacks = 1 /\ d.acks = 0

\* C6: a task that starts with retry_count 0, gets 200/409 from every start,
\* meets no dropped store connection and whose agent raises on every
\* execution is executed at most 3 times: its first two deliveries end with
\* a nack-requeue, the third with a fail POST and an ack, and there is no
\* fourth.
C6_BoundedRetries ==
    \A t \in Tasks :
        LET h == hist[t] IN
        (h.clean /\ h.rcStart = 0)
            => /\ h.execs <= 3
               /\ h.done <= 3
               /\ h.done <= 2 => h.nackEnds = h.done
               /\ h.done = 3 => (h.nackEnds = 2 /\ h.failAckEnds = 1)

\* C7: a delivery for a task that is already in the in-progress set is over
\* at once with one ack and nothing else: no store operation, no start RPC,
\* no agent, no terminal RPC, in-progress set and retry_count as they were.
C7_DuplicateAckOnly ==
    \A w \in Workers :
        LET d == dlv[w] IN
        (cur[w] # NoMsg /\ Task(w) \in d.inprog0)
            => /\ pc[w] = "done"
               /\ d.acks = 1 /\ d.nacks = 0
               /\ ~d.storeTouched
               /\ d.startRes = NoResult
               /\ ~d.agentRan
               /\ NoTerminalRpc(d)
               /\ in_progress_tasks[w] = d.inprog0
               /\ retry_count[Task(w)] = d.rc0
               /\ msgState[cur[w]] = "acked"

C7_Witness ==
    \E w \in Workers :
        /\ pc[w] = "done"
        /\ Task(w) \in dlv[w].inprog0
        /\ dlv[w].acks = 1

\* C8: in the retries-exhausted path a fail POST that raised (network error,
\* timeout) leaves the ack decision as it is: the delivery ends with one ack.
C8_FailBestEffort ==
    \A w \in Workers :
        (Finished(w) /\ dlv[w].dispFail = "err")
            => dlv[w].acks = 1 /\ dlv[w].nacks = 0

\* C9: a delivery counts a success only if a complete POST of that delivery
\* answered 200 or 409, and makes at most 3 complete POSTs.
C9_SuccessNeedsAcceptedComplete ==
    \A w \in Workers :
        /\ "success" \in dlv[w].counted => dlv[w].completeOK
        /\ dlv[w].completes <= 3

\* C10: when the designer or the chart agent finds its payload in violation
\* of its input contract, the delivery ends with a fail POST and one ack, no
\* nack-requeue, and retry_count as it was.  Stated for the deliveries in
\* which the store connection never dropped.
C10_ValidationFailsWithoutRetry ==
    \A w \in Workers :
        LET d == dlv[w] IN
        (Finished(w) /\ d.agentRan /\ payloadClass[w] # "ok" /\ ~d.dbDropped)
            => /\ d.fails >= 1
               /\ d.acks = 1 /\ d.nacks = 0
               /\ retry_count[Task(w)] = d.rc0

\* C11: a delivery in which put_object or a complete/review POST of the agent
\* raised (connection error, timeout) ends with retry_count as it was.
\* Stated for the deliveries in which the store connection never dropped.
C11_NetworkKeepsRetry ==
    \A w \in Workers :
        (Finished(w) /\ dlv[w].netErr /\ ~dlv[w].dbDropped)
            => retry_count[Task(w)] = dlv[w].rc0

C13_DesignerUnresolvedAborts ==
    \A w \in Workers :
        LET d == dlv[w] IN
        (agent_type_db[w] = "designer" /\ payloadClass[w] = "unresolved"
           /\ d.agentRan)
            => ~d.generated /\ d.puts = 0 /\ d.completes = 0

C16_ReviewerPath ==
    \A w \in Workers :
        LET d == dlv[w] IN
        (agent_type_db[w] = "reviewer" /\ d.agentRan)
            => /\ d.completes = 0
               /\ (Finished(w) /\ d.reviews = 1 /\ "reviewed" \notin d.counted
                     /\ ~d.netErr /\ ~d.dbDropped)
                    => /\ retry_count[Task(w)] = d.rc0 + 1
                       /\ \/ d.nacks = 1 /\ d.acks = 0 /\ d.fails = 0
                          \/ d.acks = 1 /\ d.nacks = 0 /\ d.fails = 1

\* C17: in every review body that is POSTed, decision is APPROVE exactly when
\* score >= score_threshold (80 when the payload gives none).
C17_DecisionMatchesThreshold ==
    (calc.fn = "run_reviewer" /\ calc.posted # NoReview)
        => (calc.posted.decision = "APPROVE"
              <=> calc.posted.score >= score_threshold(calc.in))

\* C18: when the bytes of an artifact resolved for a section cannot be
\* fetched, the designer run does not raise: the PDF is generated with that
\* section rendered as text.
C18_FetchFailureDowngrades ==
    (calc.fn = "run_designer" /\ calc.step = "done"
       /\ \E i \in DOMAIN calc.sections :
              FetchFails(calc.sections[i], calc.combined_artifacts, calc.in.badKeys))
        => /\ ~calc.raised
           /\ \A i \in DOMAIN calc.sections :
                  FetchFails(calc.sections[i], calc.combined_artifacts, calc.in.badKeys)
                      => calc.latex.kinds[i] = "text"

\* C19: the metadata of the designer's completion has embedded_artifacts
\* equal to the number of sections rendered from an artifact, section_count
\* equal to the number of sections, and role "report".
C19_EmbeddedCount ==
    (calc.fn = "run_designer" /\ calc.step = "done" /\ ~calc.raised)
        => /\ calc.metadata.embedded_artifacts
                = Cardinality({i \in DOMAIN calc.latex.kinds :
                                   calc.latex.kinds[i] = "image"})
           /\ calc.metadata.section_count = Len(calc.in.sections)
           /\ calc.metadata.role = "report"

Attempted(p) == \E i \in DOMAIN calc.attempts : calc.attempts[i] = p
SmtpCredentials == calc.in.GMAIL_USER /\ calc.in.GMAIL_APP_PASSWORD
ProviderChosen ==
    calc.fn = "run_notifier" /\ calc.step = "selected" /\ calc.in.recipients > 0

C21_CompleteOrFail ==
    (calc.fn = "run_notifier" /\ calc.step = "returned")
        => /\ calc.fails + calc.completes = 1
           /\ calc.in.production
                => (calc.fails = 1
                        <=> calc.final_status
                                \in {"no_recipients", "missing_credentials",
                                     "failed", "smtp_error", "sendgrid_error"})
           /\ ~calc.in.production
                => /\ calc.completes = 1
                   /\ calc.final_status
                            \in {"no_recipients", "missing_credentials",
                                 "failed", "smtp_error", "sendgrid_error"}
                        => calc.reported = "skipped"

\* C23: the HTTP provider is posted to only with SENDGRID_FROM_EMAIL
\* configured, the sender is never GMAIL_USER, and without
\* SENDGRID_FROM_EMAIL the HTTP send gives sendgrid_error without a POST.
C23_ExplicitSender ==
    (calc.fn = "run_notifier" /\ Attempted("http"))
        => /\ calc.sender # "GMAIL_USER"
           /\ calc.http_posted => calc.in.SENDGRID_FROM_EMAIL_env
           /\ ~calc.in.SENDGRID_FROM_EMAIL_env
                => (~calc.http_posted /\ calc.http_status = "sendgrid_error")

\* C22: the normalized recipients are a list without duplicates of
\* non-empty strings without surrounding whitespace, and the string
\* "[a@b.com; c@d.com]\nx@y.z" gives ["a@b.com", "c@d.com", "x@y.z"].
C22_RecipientsNormalized ==
    (calc.fn = "recipients" /\ calc.recipients # NoRecipients)
        => /\ \A i, j \in DOMAIN calc.recipients :
                    calc.recipients[i] = calc.recipients[j] => i = j
           /\ \A i \in DOMAIN calc.recipients :
                    /\ calc.recipients[i] # <<>>
                    /\ Head(calc.recipients[i]) \notin {" ", "\n", "\r", "\t"}
                    /\ calc.recipients[i][Len(calc.recipients[i])]
                            \notin {" ", "\n", "\r", "\t"}
           /\ (calc.in.form = "str" /\ calc.in.s = ExampleRecipients)
                    => calc.recipients = <<AB, CD, XY>>

\* the characters of the role names, for "requested role in art_role"
RoleChars(r) ==
    CASE r = "sales_chart" -> <<"s", "a", "l", "e", "s", "_", "c", "h", "a", "r", "t">>
      [] r = "sales" -> <<"s", "a", "l", "e", "s">>
      [] r = "trend" -> <<"t", "r", "e", "n", "d">>
      [] r = "logo" -> <<"l", "o", "g", "o">>
      [] r = "summary" -> <<"s", "u", "m", "m", "a", "r", "y">>
      [] OTHER -> <<>>

RoleContains(r, q) ==
    \E i \in 0..(Len(RoleChars(r)) - Len(RoleChars(q))) :
        SubSeq(RoleChars(r), i + 1, i + Len(RoleChars(q))) = RoleChars(q)

InCatalog(P(_)) ==
    \E i \in DOMAIN calc.combined_artifacts : P(calc.combined_artifacts[i])

\* C28: for each section with a {type, role} reference the designer's pick
\* is made by the first link that some artifact of the catalog passes: same
\* type and role; same role; same type and a role containing the requested
\* role; any chart for a chart; a role containing the requested role; and
\* with no such artifact there is no pick and the section is text.
C28_ResolutionChain ==
    (calc.fn = "run_designer" /\ calc.step \in {"report", "done"} /\ ~calc.raised)
        => \A i \in DOMAIN calc.sections :
             calc.sections[i].ref.form = "dict" =>
               LET ref == calc.sections[i].ref
                   art == calc.latex.picked[i]
                   Exact(a) == a.type = ref.type /\ a.role = ref.role
                   ByRole(a) == a.role = ref.role
                   TypePartial(a) == a.type = ref.type /\ RoleContains(a.role, ref.role)
                   AnyChart(a) == ref.type = "chart" /\ a.type = "chart"
                   Partial(a) == RoleContains(a.role, ref.role)
               IN CASE InCatalog(Exact) -> Exact(art)
                    [] InCatalog(ByRole) -> ByRole(art)
                    [] InCatalog(TypePartial) -> TypePartial(art)
                    [] InCatalog(AnyChart) -> AnyChart(art)
                    [] InCatalog(Partial) -> Partial(art)
                    [] OTHER -> art = NoArtifact /\ calc.latex.kinds[i] = "text"

\* C29: the catalog the designer resolves against is the artifacts fetched
\* from the store followed by the artifacts of the payload.
C29_StoreFirst ==
    (calc.fn = "run_designer" /\ calc.step \in {"generate", "report"})
        => calc.combined_artifacts = calc.in.all_job_artifacts \o calc.in.artifacts

C27_CompleteLoop ==
    \A w \in Workers :
        LET d == dlv[w] IN
        agent_type_db[w] = "designer"
            => /\ d.completes <= 3
               /\ pc[w] = "des_complete" => ~d.completeOK
               /\ (d.completes = 3 /\ ~d.completeOK /\ pc[w] # "des_complete")
                    => ("success" \notin d.counted /\ d.agentRaised)

\* C24: a generate_ai_response call in which every provider call failed,
\* by an error, an empty answer or rate limits up to the last attempt, ends
\* with an AIException and with no exception of another type.
C24_AllProvidersFailed ==
    (calc.fn = "generate_ai_response" /\ calc.step = "done"
       /\ calc.result.kind # "text")
        => calc.result.kind = "AIException"

\* C25: any two provider calls start at least RATE_LIMIT_DELAY apart.
C25_MinimumDelay ==
    calc.fn = "_wait_for_rate_limit"
        => \A i, j \in DOMAIN calc.starts :
             i < j => calc.starts[j] - calc.starts[i] >= RATE_LIMIT_DELAY

\* C30: within one generate_ai_response call a provider is called at most
\* 3 times and in one run of consecutive calls; a call that signalled a rate
\* limit is followed, while fewer than 3 calls were made on the provider,
\* by a call of the same provider; a call that failed otherwise is never
\* followed by a call of the same provider, and is followed by a call of
\* the next provider of the list when there is one.
C30_RetryAndFallthrough ==
    calc.fn = "generate_ai_response"
        => LET cs == calc.calls
               ps == providers(calc.in)
               CallsOn(p) == {i \in DOMAIN cs : cs[i].provider = p}
               Pos(p) == CHOOSE k \in DOMAIN ps : ps[k] = p
           IN /\ \A p \in {"perplexity", "sambanova"} :
                    /\ Cardinality(CallsOn(p)) <= 3
                    /\ \A i, j \in CallsOn(p) : \A k \in i..j : k \in CallsOn(p)
              /\ \A i \in DOMAIN cs :
                    /\ cs[i].outcome = "rate"
                         => \/ i < Len(cs) /\ cs[i + 1].provider = cs[i].provider
                            \/ i = Len(cs)
                                 /\ (calc.step = "done"
                                        => Cardinality(CallsOn(cs[i].provider)) = 3)
                    /\ cs[i].outcome \in {"empty", "error"}
                         => /\ i < Len(cs)
                                 => /\ Pos(cs[i].provider) < Len(ps)
                                    /\ cs[i + 1].provider = ps[Pos(cs[i].provider) + 1]
                            /\ (i = Len(cs) /\ calc.step = "done")
                                 => Pos(cs[i].provider) = Len(ps)
                    /\ cs[i].outcome = "text" => i = Len(cs)

C30_Witness ==
    /\ calc.fn = "generate_ai_response"
    /\ calc.step = "done"
    /\ Len(calc.calls) = 3
    /\ calc.calls[1] = [provider |-> "perplexity", outcome |-> "rate"]
    /\ calc.calls[2] = [provider |-> "perplexity", outcome |-> "error"]
    /\ calc.calls[3] = [provider |-> "sambanova", outcome |-> "text"]

\* ------------------------------------------- the store operations, one by one
\* The SELECT / UPDATE / INSERT statements issued on the shared db_conn.
\* "run_reviewer" is its SELECT of the target task, and
\* "_get_latest_job_pdf_attachment" its first SELECT.
StoreOps ==
    {"get_retry_count", "increment_retry", "log_task", "load_task_context",
     "run_reviewer", "_get_latest_job_pdf_attachment"}

\* What the connection does to an execution: it succeeds, or the connection
\* is lost before or after the server ran the statement.
StoreAttempts == AttemptOutcomes

\* "except (psycopg2.OperationalError, psycopg2.InterfaceError):
\*      db_conn = connect_db() ... cur.execute(...)" around the statement
ReconnectsAndRetries(op) ==
    op \in {"get_retry_count", "increment_retry", "log_task",
            "load_task_context"}

\* "except Exception as e: log_task(...); return None" around the statement
CatchesAll(op) == op = "_get_latest_job_pdf_attachment"

InitStore ==
    /\ NoDispatcher
    /\ calc \in {[fn |-> "store_op", op |-> o, a1 |-> x, a2 |-> y,
                   step |-> "start", execs |-> 0, reconnects |-> 0,
                   result |-> "none"] :
                     o \in StoreOps, x \in StoreAttempts, y \in StoreAttempts}

\* "with db_conn.cursor() as cur: cur.execute(...)"
StoreExecute ==
    /\ calc.fn = "store_op" /\ calc.step = "start"
    /\ calc' = IF calc.a1 = "ok"
               THEN [calc EXCEPT !.step = "done", !.execs = 1,
                                 !.result = "value"]
               ELSE [calc EXCEPT !.step = "failed", !.execs = 1]
    /\ UNCHANGED dispatcherVars

\* The except clause of the wrapped statements: connect_db() (which loops
\* until it is connected), then the statement once more with no handler.
StoreReconnect ==
    /\ calc.fn = "store_op" /\ calc.step = "failed"
    /\ ReconnectsAndRetries(calc.op)
    /\ calc' = [calc EXCEPT !.step = "done", !.execs = 2, !.reconnects = 1,
                   !.result = IF calc.a2 = "ok" THEN "value" ELSE "raised"]
    /\ UNCHANGED dispatcherVars

\* The other statements: the error of the first execution leaves
\* run_reviewer as it is, and _get_latest_job_pdf_attachment turns it into
\* None after a log_task; neither executes the statement again.
StoreGivesUp ==
    /\ calc.fn = "store_op" /\ calc.step = "failed"
    /\ ~ReconnectsAndRetries(calc.op)
    /\ calc' = [calc EXCEPT !.step = "done",
                   !.result = IF CatchesAll(calc.op) THEN "None" ELSE "raised"]
    /\ UNCHANGED dispatcherVars

NextStore ==
    \/ StoreExecute
    \/ StoreReconnect
    \/ StoreGivesUp

SpecStore == InitStore /\ [][NextStore]_vars

\* C31: a store operation (get_retry_count, increment_retry, log_task,
\* load_task_context, the reviewer's read of the target task, the notifier's
\* read of the latest PDF) whose first execution hit a dropped connection
\* has reconnected once and executed the statement exactly once more; when
\* that second execution failed too the error was raised, and otherwise the
\* operation returned its value.
C31_ReconnectOnce ==
    (calc.fn = "store_op" /\ calc.step = "done" /\ calc.a1 # "ok")
        => /\ calc.reconnects = 1
           /\ calc.execs = 2
           /\ calc.result = (IF calc.a2 = "ok" THEN "value" ELSE "raised")

\* C32: a review whose target exists with status SUCCESS and a non-empty
\* result, and whose AI call failed, reports score 85.
C32_AiFailureScore ==
    (/\ calc.fn = "run_reviewer" /\ calc.review # NoReview
     /\ calc.in.production /\ calc.in.target
     /\ calc.in.row.found /\ calc.in.row.status = "SUCCESS"
     /\ ~calc.in.row.empty
     /\ calc.in.ai.kind = "raise")
        => calc.review.score = 85

\* --------------------------------------------------------------- run_chart
\* Data selection, type selection, validation and drawing of run_chart for
\* a payload without unresolved templates.  Every key of the payload is
\* absent or holds a value of its JSON type; an absent list is <<>>.
\* Longest x, y, labels or values list.
MaxPoints == 2

\* Items of the lists: a number, a text float() rejects, a text it parses.
Item(t, v) == [t |-> t, v |-> v]
N1 == Item("number", "1")
Mon == Item("str", "Mon")
S2 == Item("str", "2")
FloatTexts == {"1", "2"}

ChartTypes == {"", "bar", "pie", "histogram", "line", "radar"}
DrawnTypes == {"bar", "line", "scatter", "area", "pie", "histogram"}

\* payload["data"]: absent, or the rows [{"v": 1}, {"v": 1}], from which
\* _extract_xy_from_rows gives the row numbers as x and the "v" values as y
Extracted(data) ==
    IF data = "rows" THEN [x |-> <<N1, N1>>, y |-> <<N1, N1>>]
    ELSE [x |-> <<>>, y |-> <<>>]

ChartInputs ==
    [type : ChartTypes,
     x : SeqsUpTo({N1, Mon, S2}, MaxPoints),
     y : SeqsUpTo({N1, Mon}, MaxPoints),
     labels : SeqsUpTo({Mon}, MaxPoints),
     values : SeqsUpTo({N1}, MaxPoints) \cup {<<Mon>>},
     data : {"none", "rows"}]

\* isinstance(item, (int, float)), or a text float(item.strip()) accepts
Coerces(item) == item.t = "number" \/ item.v \in FloatTexts

_coerce_number_list(v) == SelectSeq(v, Coerces)

\* [str(x) for x in v]
_coerce_label_list(v) == [i \in DOMAIN v |-> v[i].v]

\* "if (... not x or not y) and isinstance(data_obj, list): ... if x_ex and
\* y_ex: x = x or x_ex; y = y or y_ex"
SelectedXY(in) ==
    LET ex == Extracted(in.data)
    IN IF (in.x = <<>> \/ in.y = <<>>) /\ ex.x # <<>> /\ ex.y # <<>>
       THEN [x |-> IF in.x # <<>> THEN in.x ELSE ex.x,
             y |-> IF in.y # <<>> THEN in.y ELSE ex.y]
       ELSE [x |-> in.x, y |-> in.y]

\* Variant: equal-length labels and values select a pie chart.
SelectedTypeLabelsAsPie(type, labels_str, values_num, x_num, y_num) ==
    IF type # "" THEN type
    ELSE IF labels_str # <<>> /\ values_num # <<>>
            /\ Len(labels_str) = Len(values_num) THEN "pie"
    ELSE IF values_num # <<>> /\ ~(x_num # <<>> /\ y_num # <<>>) THEN "histogram"
    ELSE IF x_num # <<>> /\ y_num # <<>> /\ Len(x_num) = Len(y_num) THEN "line"
    ELSE "bar"

\* 4) Select chart type (if not explicitly provided)
SelectedType(type, labels_str, values_num, x_num, y_num) ==
    IF type # "" THEN type
    ELSE IF labels_str # <<>> /\ values_num # <<>>
            /\ Len(labels_str) = Len(values_num) THEN "bar"
    ELSE IF values_num # <<>> /\ ~(x_num # <<>> /\ y_num # <<>>) THEN "histogram"
    ELSE IF x_num # <<>> /\ y_num # <<>> /\ Len(x_num) = Len(y_num) THEN "line"
    ELSE "bar"

\* Variant of the bar branch: the lengths of x and y are not compared.
BarErrorIgnoringLengths(x_num, y_num, x_cat) ==
    IF y_num = <<>> THEN "Bar chart requires a numeric 'y' array."
    ELSE IF x_num = <<>> /\ x_cat = <<>>
    THEN "Bar chart requires 'x' labels and numeric 'y' arrays of equal length."
    ELSE ""

\* "elif chart_type in ('bar',):" of the validation
BarError(x_num, y_num, x_cat) ==
    IF y_num = <<>> THEN "Bar chart requires a numeric 'y' array."
    ELSE IF x_num # <<>> /\ Len(x_num) # Len(y_num)
    THEN "Bar chart requires 'x' and 'y' arrays of equal length."
    ELSE IF x_num = <<>> /\ (x_cat = <<>> \/ Len(x_cat) # Len(y_num))
    THEN "Bar chart requires 'x' labels and numeric 'y' arrays of equal length."
    ELSE ""

\* 5) Validate we have real data for the chosen chart type
ChartError(chart_type, x_num, y_num, x_cat, labels_str, values_num) ==
    IF chart_type = "pie"
    THEN IF labels_str = <<>> \/ values_num = <<>>
            \/ Len(labels_str) # Len(values_num)
         THEN "Pie chart requires 'labels' and 'values' arrays of equal length."
         ELSE ""
    ELSE IF chart_type = "histogram"
    THEN IF values_num = <<>>
         THEN "Histogram requires a numeric 'values' array." ELSE ""
    ELSE IF chart_type = "bar" THEN BarError(x_num, y_num, x_cat)
    ELSE IF x_num = <<>> \/ y_num = <<>> \/ Len(x_num) # Len(y_num)
    THEN "Line/bar/scatter/area charts require numeric 'x' and 'y' arrays of equal length."
    ELSE ""

InitChart ==
    /\ NoDispatcher
    /\ calc \in {[fn |-> "run_chart", in |-> i, step |-> "start",
                   chart_type |-> "", x_cat |-> <<>>, y_num |-> <<>>,
                   error_msg |-> "", fails |-> 0, bars |-> -1, puts |-> 0,
                   completes |-> 0, counted |-> "none"] : i \in ChartInputs}

\* run_chart from "1) Prefer explicit structured payload" to "if error_msg:"
RunChartValidate ==
    /\ calc.fn = "run_chart" /\ calc.step = "start"
    /\ LET xy == SelectedXY(calc.in)
           x_num == _coerce_number_list(xy.x)
           y_num == _coerce_number_list(xy.y)
           values_num == _coerce_number_list(calc.in.values)
           labels_str == _coerce_label_list(calc.in.labels)
           x_cat == _coerce_label_list(xy.x)
           chart_type == SelectedType(calc.in.type, labels_str, values_num,
                                      x_num, y_num)
           error_msg == ChartError(chart_type, x_num, y_num, x_cat,
                                   labels_str, values_num)
       IN calc' = [calc EXCEPT !.chart_type = chart_type, !.x_cat = x_cat,
                       !.y_num = y_num, !.error_msg = error_msg,
                       !.step = IF error_msg # "" THEN "invalid" ELSE "valid"]
    /\ UNCHANGED dispatcherVars

\* "if error_msg:": log_task, POST /fail inside try/except, count "failed"
RunChartReject(r) ==
    /\ calc.fn = "run_chart" /\ calc.step = "invalid"
    /\ calc' = [calc EXCEPT !.fails = @ + 1, !.counted = "failed",
                             !.step = "returned"]
    /\ UNCHANGED dispatcherVars

\* plt.bar / plot / scatter / fill_between / pie / hist, or
\* "raise ValueError(f'Unsupported chart type: ...')"
RunChartDraw ==
    /\ calc.fn = "run_chart" /\ calc.step = "valid"
    /\ calc' = IF calc.chart_type \in DrawnTypes
               THEN [calc EXCEPT !.step = "drawn",
                        !.bars = IF calc.chart_type = "bar"
                                 THEN Len(calc.y_num) ELSE 0]
               ELSE [calc EXCEPT !.step = "raised"]
    /\ UNCHANGED dispatcherVars

\* s3_client.put_object(...)
RunChartPut(ok) ==
    /\ calc.fn = "run_chart" /\ calc.step = "drawn"
    /\ calc' = IF ok THEN [calc EXCEPT !.puts = @ + 1, !.step = "stored"]
               ELSE [calc EXCEPT !.step = "raised"]
    /\ UNCHANGED dispatcherVars

\* requests.post(.../complete, ...): the answer is not looked at
RunChartComplete(r) ==
    /\ calc.fn = "run_chart" /\ calc.step = "stored"
    /\ calc' = IF r.err
               THEN [calc EXCEPT !.completes = @ + 1, !.step = "raised"]
               ELSE [calc EXCEPT !.completes = @ + 1, !.counted = "success",
                                 !.step = "returned"]
    /\ UNCHANGED dispatcherVars

NextChart ==
    \/ RunChartValidate
    \/ \E r \in {Resp(200), NetErr} : RunChartReject(r)
    \/ RunChartDraw
    \/ \E ok \in BOOLEAN : RunChartPut(ok)
    \/ \E r \in {Resp(200), NetErr} : RunChartComplete(r)

SpecChart == InitChart /\ [][NextChart]_vars

\* The payload's x holds only texts that are not numbers, its y only
\* numbers, both non-empty, and the chart type is bar.
CategoricalBar ==
    /\ calc.fn = "run_chart" /\ calc.step # "start"
    /\ calc.chart_type = "bar"
    /\ calc.in.x # <<>> /\ calc.in.y # <<>>
    /\ \A i \in DOMAIN calc.in.x : ~Coerces(calc.in.x[i])
    /\ \A i \in DOMAIN calc.in.y : Coerces(calc.in.y[i])

\* C33: a bar chart with categorical x labels and a numeric y of the same
\* length is drawn with one bar per y value, with no fail POST, and is
\* uploaded and completed unless the upload or the POST raises; with
\* different lengths the fail POST is made and nothing is drawn, uploaded or
\* completed.
C33_CategoricalBar ==
    CategoricalBar
        => IF Len(calc.in.x) = Len(calc.in.y)
           THEN /\ calc.error_msg = "" /\ calc.fails = 0
                /\ calc.step \in {"valid", "drawn", "stored", "returned", "raised"}
                /\ calc.step \in {"drawn", "stored", "returned"}
                     => calc.bars = Len(calc.in.y)
                /\ calc.step = "returned" => (calc.puts = 1 /\ calc.completes = 1)
                /\ calc.step = "raised" => calc.bars = Len(calc.in.y)
           ELSE /\ calc.error_msg # ""
                /\ calc.step \in {"invalid", "returned"}
                /\ calc.step = "returned" => calc.fails = 1
                /\ calc.bars = -1 /\ calc.puts = 0 /\ calc.completes = 0

C33_Witness ==
    /\ CategoricalBar
    /\ calc.in.x = <<Mon, Mon>> /\ calc.in.y = <<N1, N1>>
    /\ calc.step = "returned" /\ calc.completes = 1 /\ calc.bars = 2

\* The payload has no type, non-empty labels and numeric values of the same
\* length, no x and no y, and no data rows to take them from.
LabelsAndValuesOnly ==
    /\ calc.fn = "run_chart" /\ calc.step # "start"
    /\ calc.in.type = ""
    /\ calc.in.labels # <<>>
    /\ Len(calc.in.labels) = Len(calc.in.values)
    /\ \A i \in DOMAIN calc.in.values : Coerces(calc.in.values[i])
    /\ calc.in.x = <<>> /\ calc.in.y = <<>>
    /\ calc.in.data = "none"

\* C39: a chart payload with no type, with non-empty labels and numeric
\* values of equal length and with no x/y data is typed bar and rejected by
\* the bar validation for its missing numeric y: the fail POST is made and
\* nothing is drawn, uploaded or completed.
C39_LabelsValuesRejected ==
    LabelsAndValuesOnly
        => /\ calc.chart_type = "bar"
           /\ calc.error_msg = "Bar chart requires a numeric 'y' array."
           /\ calc.step \in {"invalid", "returned"}
           /\ calc.step = "returned" => (calc.fails = 1 /\ calc.counted = "failed")
           /\ calc.bars = -1 /\ calc.puts = 0 /\ calc.completes = 0

C39_Witness ==
    /\ LabelsAndValuesOnly
    /\ calc.in.labels = <<Mon, Mon>> /\ calc.in.values = <<N1, N1>>
    /\ calc.step = "returned" /\ calc.fails = 1

\* ---------------------------------------------------------- get_chart_role
\* Titles are lists of words, "" is an absent or empty text; a keyword
\* occurs in a title when it is one of its words.
\* Longest title, in words.
MaxWords == 2

CHART_ROLE_MAP ==
    << [keyword |-> "latency", role |-> "latency_p95"],
       [keyword |-> "throughput", role |-> "throughput"],
       [keyword |-> "errors", role |-> "error_rate"],
       [keyword |-> "response_time", role |-> "latency_p95"],
       [keyword |-> "requests_per_sec", role |-> "throughput"],
       [keyword |-> "error_percentage", role |-> "error_rate"] >>

DEFAULT_CHART_ROLE == "chart"

TitleWords == {"Latency", "p95", "errors", "Throughput", "Sales"}

\* Variant: the text is compared as it is written.
lower_kept(word) == word

\* str.lower() on the words in use
lower(word) ==
    CASE word = "Latency" -> "latency"
      [] word = "Throughput" -> "throughput"
      [] word = "Errors" -> "errors"
      [] OTHER -> word

RoleInputs ==
    [role : {"", "custom"},
     title : SeqsUpTo(TitleWords, MaxWords),
     type : {"", "bar", "Errors", "response_time"}]

\* "keyword in title" for the lowercased title
Occurs(keyword, title) == \E i \in DOMAIN title : lower(title[i]) = keyword

\* "for keyword, role in CHART_ROLE_MAP.items(): if keyword in title:"
RECURSIVE TitleRole(_, _)
TitleRole(title, k) ==
    IF k > Len(CHART_ROLE_MAP) THEN ""
    ELSE IF Occurs(CHART_ROLE_MAP[k].keyword, title) THEN CHART_ROLE_MAP[k].role
    ELSE TitleRole(title, k + 1)

\* "if chart_type in CHART_ROLE_MAP: return CHART_ROLE_MAP[chart_type]"
TypeRole(chart_type) ==
    IF \E k \in DOMAIN CHART_ROLE_MAP : CHART_ROLE_MAP[k].keyword = chart_type
    THEN CHART_ROLE_MAP[CHOOSE k \in DOMAIN CHART_ROLE_MAP :
                            CHART_ROLE_MAP[k].keyword = chart_type].role
    ELSE ""

get_chart_role(payload) ==
    IF payload.role # "" THEN payload.role
    ELSE IF TitleRole(payload.title, 1) # "" THEN TitleRole(payload.title, 1)
    ELSE IF TypeRole(lower(payload.type)) # "" THEN TypeRole(lower(payload.type))
    ELSE DEFAULT_CHART_ROLE

InitRole ==
    /\ NoDispatcher
    /\ calc \in {[fn |-> "get_chart_role", in |-> i, step |-> "start",
                   returned |-> "", role |-> "", defaulted |-> FALSE] :
                     i \in RoleInputs}

\* "role = get_chart_role(payload); if not role: role = 'auto_chart'"
RunChartRole ==
    /\ calc.fn = "get_chart_role" /\ calc.step = "start"
    /\ LET r == get_chart_role(calc.in)
       IN calc' = [calc EXCEPT !.step = "done", !.returned = r,
                       !.role = IF r = "" THEN "auto_chart" ELSE r,
                       !.defaulted = (r = "")]
    /\ UNCHANGED dispatcherVars

NextRole == RunChartRole

SpecRole == InitRole /\ [][NextRole]_vars

\* Places of the map whose keyword is a word of the lowercased title.
Hits(title) ==
    {k \in DOMAIN CHART_ROLE_MAP :
        \E i \in DOMAIN title : lower(title[i]) = CHART_ROLE_MAP[k].keyword}

C40_SingleProvider ==
    (calc.fn = "generate_ai_response" /\ calc.in.AI_PROVIDER = "perplexity")
        => LET cs == calc.calls IN
           /\ \A i \in DOMAIN cs : cs[i].provider = "perplexity"
           /\ ~calc.in.perplexity => cs = <<>>
           /\ calc.step = "done"
                => /\ calc.result.kind \in {"text", "AIException", "RetryError"}
                   /\ calc.result.kind = "text"
                        <=> (cs # <<>> /\ cs[Len(cs)].outcome = "text")
                   /\ ~calc.in.perplexity => calc.result.kind = "AIException"

C40_Witness ==
    /\ calc.fn = "generate_ai_response" /\ calc.step = "done"
    /\ calc.in.AI_PROVIDER = "perplexity"
    /\ calc.in.perplexity /\ calc.in.sambanova
    /\ calc.calls = <<[provider |-> "perplexity", outcome |-> "error"]>>
    /\ calc.result.kind = "AIException"

\* The orchestrator answered 200 to the complete or review POST of the
\* delivery.
Accepted200(d) ==
    (d.completeOK /\ ~d.complete409) \/ "reviewed" \in d.counted

\* C35: a delivery whose complete or review POST was answered 200 does not
\* enter the except block of handle_message afterwards: retry_count is
\* neither read nor incremented, the message is not nacked, no fail POST is
\* made, and when handle_message is left the message was acked once.
C35_AcceptedEndsWithAck ==
    \A w \in Workers :
        LET d == dlv[w] IN
        Accepted200(d)
            => /\ pc[w] \notin {"except", "incr", "fail_log", "fail_post",
                                "dlq_log", "retry_log", "raised"}
               /\ ~d.retryRead
               /\ retry_count[Task(w)] = d.rc0
               /\ d.nacks = 0 /\ d.fails = 0
               /\ pc[w] = "done" => d.acks = 1

\* C36: once increment_retry has returned in the except block of a
\* delivery, the stored retry_count of the task is one more than when the
\* delivery began, whatever the store connection did during the UPDATE.
C36_IncrementOnce ==
    \A w \in Workers :
        pc[w] \in {"fail_log", "fail_post", "dlq_log", "retry_log"}
            => retry_count[Task(w)] = dlv[w].rc0 + 1

\* ------------------------------------------------ redelivery without end
\* The broker delivers a ready message again and again, however often it
\* was requeued: the deliveries are not counted.  The store connection
\* holds, the analyzer is the only agent, and the orchestrator answers the
\* fail POST; the start and complete POSTs may raise or be refused.
StoreOk == DbRetryOnce("ok", "ok")

InitLive ==
    /\ Init
    /\ msgBody = [m \in Msgs |-> "t1"]
    /\ rowAgent \in [Tasks -> {"analyzer", NoRow}]

Redeliver(w, m) == Accept(w, m) /\ UNCHANGED deliveries

NextLive ==
    \E w \in Workers :
        \/ \E m \in Msgs : Redeliver(w, m)
        \/ LoadContext(w, StoreOk)
        \/ TaskNotFound(w, StoreOk)
        \/ \E r \in HttpResults : StartOwned(w, r)
        \/ \E r \in HttpResults : StartRefused(w, r)
        \/ StartNetErr(w)
        \/ StartFailed(w, StoreOk)
        \/ Dispatch(w, StoreOk, "ok")
        \/ \E ok \in BOOLEAN : AgentBody(w, ok)
        \/ \E ok \in BOOLEAN : AgentPut(w, ok)
        \/ \E r \in HttpResults : AgentComplete(w, r)
        \/ FinalLog(w, StoreOk)
        \/ AckSuccess(w)
        \/ ReadRetryCount(w, StoreOk)
        \/ IncrementRetry(w, StoreOk)
        \/ LogFailure(w, StoreOk)
        \/ \E s \in Statuses : PostFail(w, Resp(s))
        \/ AckFailed(w, StoreOk)
        \/ NackRetry(w, StoreOk)
        \/ HandlerReturns(w)

\* The worker keeps running, and the broker delivers every message that is
\* ready again and again.
Fairness ==
    /\ WF_vars(NextLive)
    /\ \A m \in Msgs : SF_vars(\E w \in Workers : Redeliver(w, m))

SpecLive == InitLive /\ [][NextLive]_vars /\ Fairness

\* C37: under fair redelivery every task message is eventually acked for
\* good, whatever the orchestrator answers to the start POST.
C37_EventuallyAcked ==
    \A m \in Msgs : <>(msgState[m] = "acked")

\* ------------------------------------------------------ two worker processes
\* Both processes consume from the queue, each with its own
\* in_progress_tasks; two messages name the same analyzer task and the
\* store connection holds.
InitTwo ==
    /\ active = Workers
    /\ msgBody = [m \in Msgs |-> "t1"]
    /\ msgState = [m \in Msgs |-> "ready"]
    /\ deliveries = 0
    /\ rowAgent = [t \in Tasks |-> "analyzer"]
    /\ retry_count = [t \in Tasks |-> 0]
    /\ in_progress_tasks = [w \in Workers |-> {}]
    /\ pc = [w \in Workers |-> "idle"]
    /\ cur = [w \in Workers |-> NoMsg]
    /\ task_id = [w \in Workers |-> NoTask]
    /\ agent_type_db = [w \in Workers |-> NoRow]
    /\ payloadClass = [w \in Workers |-> "ok"]
    /\ retries = [w \in Workers |-> 0]
    /\ attempt = [w \in Workers |-> 0]
    /\ dlv = [w \in Workers |-> IdleDelivery]
    /\ hist = [t \in Tasks |-> NoHist]
    /\ job_id = [w \in Workers |-> NoJob]
    /\ storage = {}
    /\ calc = NoCall

\* Worker w is inside the agent of task t: after the dispatch, up to the
\* POST that reports the result.
Executing(w, t) ==
    /\ task_id[w] = t
    /\ dlv[w].agentRan
    /\ pc[w] \in {"body", "put", "complete"}

\* The orchestrator has the task RUNNING for worker v: its start was
\* answered 200 or 409 and it has reported nothing yet.
RunningFor(v, t) ==
    /\ task_id[v] = t
    /\ OwnershipAcquired(dlv[v].startRes)
    /\ NoTerminalRpc(dlv[v])
    /\ pc[v] \notin {"idle", "done", "raised"}

\* The orchestrator's answer to the start POST of w: 409 while the task is
\* RUNNING for another worker, otherwise any status.
StartAnswers(w) ==
    IF \E v \in Workers \ {w} : RunningFor(v, task_id[w])
    THEN {Resp(409)}
    ELSE {Resp(s) : s \in Statuses}

NextTwo ==
    \E w \in Workers :
        \/ \E m \in Msgs : ReceiveNew(w, m)
        \/ LoadContext(w, StoreOk)
        \/ \E r \in HttpResults : r \in StartAnswers(w) /\ StartOwned(w, r)
        \/ \E r \in HttpResults : r \in StartAnswers(w) /\ StartRefused(w, r)
        \/ StartNetErr(w)
        \/ StartFailed(w, StoreOk)
        \/ Dispatch(w, StoreOk, "ok")
        \/ \E ok \in BOOLEAN : AgentBody(w, ok)
        \/ \E ok \in BOOLEAN : AgentPut(w, ok)
        \/ \E r \in HttpResults : AgentComplete(w, r)
        \/ FinalLog(w, StoreOk)
        \/ AckSuccess(w)
        \/ ReadRetryCount(w, StoreOk)
        \/ IncrementRetry(w, StoreOk)
        \/ LogFailure(w, StoreOk)
        \/ \E s \in Statuses : PostFail(w, Resp(s))
        \/ AckFailed(w, StoreOk)
        \/ NackRetry(w, StoreOk)
        \/ HandlerReturns(w)

SpecTwo == InitTwo /\ [][NextTwo]_vars

\* C38: at no time are two worker processes inside the agent of the same
\* task.
C38_OneExecutor ==
    \A t \in Tasks : \A v, w \in Workers :
        (Executing(v, t) /\ Executing(w, t)) => v = w

====
